---- MODULE Spec2Model ----
(***************************************************************************)
(* A model of obsidian_knife's back-population pipeline:                   *)
(*   - the ambiguity resolver (back_populate.rs),                          *)
(*   - the corpus ordering (scan.rs) and link formatting                   *)
(*     (wikilink_types.rs),                                                *)
(*   - the code-fence tracker (markdown_file/text_excluder.rs),            *)
(*   - the line match extractor and the rewrite application.               *)
(*                                                                         *)
(* A string is a sequence of bytes (ASCII codes): "Ed" is <<69, 100>>.     *)
(* Only ASCII text is modelled, so to_lowercase and the matcher's          *)
(* ascii_case_insensitive folding agree on every string of the model.      *)
(***************************************************************************)
EXTENDS Integers, Sequences, FiniteSets, TLC

VARIABLES
    pc,                 \* position inside the running entry point
    wikilinks_sorted,   \* ObsidianRepositoryInfo.wikilinks_sorted
    markdown_files,     \* ObsidianRepositoryInfo.markdown_files (a Vec, in push order)
    input_files,        \* history: markdown_files as they were before classification
    ambiguous_matches,  \* the Vec<AmbiguousMatch> returned by the classifier
    applied,            \* history: the records handed to apply_back_populate_changes
    tracker,            \* a BlockTracker: [kind, location]
    updates,            \* history: the contents given to tracker.update, in order
    pass,               \* "first" or "second": which run of the program this is
    first_pass,         \* history: the files and the applied records of the first run
    config,             \* the apply_changes field of the Config in memory
    config_file,        \* the apply_changes field of the stored configuration
    disk,               \* the documents as they are stored
    writes,             \* history: every write to a stored file, in order
    tasks,              \* the per-document tasks of the parallel scan
    shared_wikilinks,   \* all_wikilinks, the shared HashSet<Wikilink> of the scan
    scan_result,        \* what scan_markdown_files, then scan_folders, returned
    report,             \* the tables of unambiguous matches written to the report
    outcome,            \* the Result of the operation: "running", Ok or Err
    highlight           \* a call of highlight_matches: its arguments and what it did

\* the state of a run of process_obsidian_repository
run_vars == <<config, config_file, disk, writes>>

\* the state of scan_markdown_files
scan_vars == <<tasks, shared_wikilinks, scan_result>>

par_vars == <<scan_vars, outcome>>

vars == <<pc, wikilinks_sorted, markdown_files, input_files, ambiguous_matches,
          applied, tracker, updates, pass, first_pass, config, config_file, disk,
          writes, tasks, shared_wikilinks, scan_result, report,
          outcome, highlight>>

----------------------------------------------------------------------------
(* Bounds *)

\* total number of match records over all documents (resolver specification)
MaxMatches == 2
\* number of update calls made on one tracker (tracker specification)
MaxUpdates == 4

----------------------------------------------------------------------------
(* Strings *)

MinOf(S) == CHOOSE x \in S : \A y \in S : x <= y

\* str::to_lowercase, on ASCII
to_lowercase(s) ==
    [i \in 1..Len(s) |-> IF s[i] >= 65 /\ s[i] <= 90 THEN s[i] + 32 ELSE s[i]]

\* Ord for str: byte-wise lexicographic
StrCmp(a, b) ==
    LET n == IF Len(a) < Len(b) THEN Len(a) ELSE Len(b)
        d == {i \in 1..n : a[i] # b[i]}
    IN  IF d = {}
        THEN IF Len(a) < Len(b) THEN "Less"
             ELSE IF Len(a) > Len(b) THEN "Greater" ELSE "Equal"
        ELSE IF a[MinOf(d)] < b[MinOf(d)] THEN "Less" ELSE "Greater"

\* a.starts_with(b) at offset i (1-based): s[i..] begins with p
StartsWithAt(s, i, p) ==
    /\ i + Len(p) - 1 <= Len(s)
    /\ \A k \in 1..Len(p) : s[i + k - 1] = p[k]

ends_with(s, p) ==
    /\ Len(p) <= Len(s)
    /\ \A k \in 1..Len(p) : s[Len(s) - Len(p) + k] = p[k]

\* all orders in which a collection with no defined order may be iterated
Perms(S) ==
    {p \in [1..Cardinality(S) -> S] : \A i, j \in 1..Cardinality(S) : i # j => p[i] # p[j]}

SeqToSet(q) == {q[i] : i \in 1..Len(q)}

----------------------------------------------------------------------------
(* wikilink_types.rs *)

\* strip_md_extension: drop a trailing ".md"
strip_md_extension(text) ==
    IF ends_with(text, <<46, 109, 100>>) THEN SubSeq(text, 1, Len(text) - 3) ELSE text

\* a defect of to_wikilink: the closing brackets left out
to_wikilink_unclosed(text) == <<91, 91>> \o strip_md_extension(text)

\* ToWikilink::to_wikilink: "[[" text-without-.md "]]"
to_wikilink(text) == <<91, 91>> \o strip_md_extension(text) \o <<93, 93>>

\* a defect of to_aliased_wikilink: the display text always written
to_aliased_wikilink_never_bare(target, display_text) ==
    <<91, 91>> \o strip_md_extension(target) \o <<124>> \o display_text \o <<93, 93>>

\* a defect of to_aliased_wikilink: the texts compared ignoring case
to_aliased_wikilink_ignoring_case(target, display_text) ==
    LET target_without_md == strip_md_extension(target)
    IN  IF to_lowercase(target_without_md) = to_lowercase(display_text)
        THEN to_wikilink(target_without_md)
        ELSE <<91, 91>> \o target_without_md \o <<124>> \o display_text \o <<93, 93>>

\* ToWikilink::to_aliased_wikilink: the bare link when target and display
\* text are the same string, "[[target|display]]" otherwise
to_aliased_wikilink(target, display_text) ==
    LET target_without_md == strip_md_extension(target)
    IN  IF target_without_md = display_text
        THEN to_wikilink(target_without_md)
        ELSE <<91, 91>> \o target_without_md \o <<124>> \o display_text \o <<93, 93>>

Wikilink(d, t, a) == [display_text |-> d, target |-> t, is_alias |-> a]

----------------------------------------------------------------------------
(* scan.rs: the ordering of the corpus *)

\* a defect of compare_wikilinks: the alias arm reversed
compare_wikilinks_alias_last(a, b) ==
    IF Len(b.display_text) # Len(a.display_text)
    THEN IF Len(b.display_text) < Len(a.display_text) THEN "Less" ELSE "Greater"
    ELSE IF StrCmp(a.display_text, b.display_text) # "Equal"
    THEN StrCmp(a.display_text, b.display_text)
    ELSE IF a.is_alias /\ ~b.is_alias THEN "Greater"
    ELSE IF ~a.is_alias /\ b.is_alias THEN "Less"
    ELSE StrCmp(a.target, b.target)

\* a defect of compare_wikilinks: the target left out of the comparison
compare_wikilinks_without_target(a, b) ==
    IF Len(b.display_text) # Len(a.display_text)
    THEN IF Len(b.display_text) < Len(a.display_text) THEN "Less" ELSE "Greater"
    ELSE IF StrCmp(a.display_text, b.display_text) # "Equal"
    THEN StrCmp(a.display_text, b.display_text)
    ELSE IF a.is_alias /\ ~b.is_alias THEN "Less"
    ELSE IF ~a.is_alias /\ b.is_alias THEN "Greater"
    ELSE "Equal"

\* compare_wikilinks: display_text length descending, display_text, alias
\* before non-alias, target
compare_wikilinks(a, b) ==
    IF Len(b.display_text) # Len(a.display_text)
    THEN IF Len(b.display_text) < Len(a.display_text) THEN "Less" ELSE "Greater"
    ELSE IF StrCmp(a.display_text, b.display_text) # "Equal"
    THEN StrCmp(a.display_text, b.display_text)
    ELSE IF a.is_alias /\ ~b.is_alias THEN "Less"
    ELSE IF ~a.is_alias /\ b.is_alias THEN "Greater"
    ELSE StrCmp(a.target, b.target)

\* sort_and_build_wikilinks_ac, the Vec it returns: the HashSet is iterated
\* in any order and sort_unstable_by leaves any order among elements that
\* compare Equal, so every arrangement with no descent is possible
RECURSIVE sort_and_build_wikilinks_ac(_)
sort_and_build_wikilinks_ac(all_wikilinks) ==
    IF all_wikilinks = {} THEN {<<>>}
    ELSE LET least == {w \in all_wikilinks :
                          \A x \in all_wikilinks : compare_wikilinks(w, x) # "Greater"}
         IN  UNION {{<<w>> \o rest :
                        rest \in sort_and_build_wikilinks_ac(all_wikilinks \ {w})} :
                    w \in least}

----------------------------------------------------------------------------
(* markdown_file/text_excluder.rs *)

RECURSIVE trim_start(_)
trim_start(s) ==
    IF s # <<>> /\ Head(s) \in {32, 9} THEN trim_start(Tail(s)) ELSE s

RECURSIVE trim_end(_)
trim_end(s) ==
    IF s # <<>> /\ s[Len(s)] \in {32, 9} THEN trim_end(SubSeq(s, 1, Len(s) - 1)) ELSE s

\* str::trim
trim(s) == trim_end(trim_start(s))

\* the contents update() is called with: a line (&str) or a character
Line(s) == [type |-> "str", value |-> s]
Char(c) == [type |-> "char", value |-> c]

\* TryFrom<&str> and TryFrom<char> for CodeBlockDelimiter
try_into(content) ==
    IF content.type = "str"
    THEN IF StartsWithAt(trim(content.value), 1, <<96, 96, 96>>)
         THEN "TripleBacktick" ELSE "Err"
    ELSE IF content.value = 96 THEN "Backtick" ELSE "Err"

\* BlockTracker::new_with_delimiter
new_with_delimiter(kind) == [kind |-> kind, location |-> "Outside"]

\* a defect of update(): a delimiter on the closing delimiter leaves the block
update_closing_goes_outside(t, content) ==
    IF try_into(content) # "Err"
    THEN IF try_into(content) = t.kind
         THEN [t EXCEPT !.location =
                  IF t.location = "Outside" THEN "Inside"
                  ELSE IF t.location = "Inside" THEN "OnClosingDelimiter"
                  ELSE "Outside"]
         ELSE t
    ELSE IF t.location = "OnClosingDelimiter"
         THEN [t EXCEPT !.location = "Outside"]
         ELSE t

\* a defect of update(): text inside a block ends the block
update_text_ends_block(t, content) ==
    IF try_into(content) # "Err"
    THEN IF try_into(content) = t.kind
         THEN [t EXCEPT !.location =
                  IF t.location = "Inside" THEN "OnClosingDelimiter" ELSE "Inside"]
         ELSE t
    ELSE [t EXCEPT !.location = "Outside"]

\* a defect of update(): a delimiter on the closing delimiter changes nothing
update_closing_stays(t, content) ==
    IF try_into(content) # "Err"
    THEN IF try_into(content) = t.kind
         THEN [t EXCEPT !.location =
                  IF t.location = "Inside" THEN "OnClosingDelimiter"
                  ELSE IF t.location = "Outside" THEN "Inside"
                  ELSE "OnClosingDelimiter"]
         ELSE t
    ELSE IF t.location = "OnClosingDelimiter"
         THEN [t EXCEPT !.location = "Outside"]
         ELSE t

\* BlockTracker::update
update(t, content) ==
    IF try_into(content) # "Err"
    THEN IF try_into(content) = t.kind
         THEN [t EXCEPT !.location =
                  IF t.location = "Inside" THEN "OnClosingDelimiter"
                  ELSE IF t.location = "Outside" THEN "Inside"
                  ELSE "Inside"]
         ELSE t
    ELSE IF t.location = "OnClosingDelimiter"
         THEN [t EXCEPT !.location = "Outside"]
         ELSE t

\* BlockTracker::should_skip
should_skip(t) == t.location \in {"Inside", "OnClosingDelimiter"}

----------------------------------------------------------------------------
(* back_populate.rs: identify_and_remove_ambiguous_matches *)

EmptyMap == [k \in {} |-> {}]

\* a defect of the target_map loop: the first spelling seen is kept, an
\* all-lowercase spelling seen later does not replace it
target_map_insert_first_seen(target_map, wikilink) ==
    LET lower_target == to_lowercase(wikilink.target)
    IN  IF lower_target \notin DOMAIN target_map
        THEN (lower_target :> wikilink.target) @@ target_map
        ELSE target_map

\* one iteration of the first loop: the canonical spelling of a case-folded
\* target is the first one seen, replaced by an all-lowercase one
target_map_insert(target_map, wikilink) ==
    LET lower_target == to_lowercase(wikilink.target)
    IN  IF lower_target \notin DOMAIN target_map
           \/ to_lowercase(wikilink.target) = wikilink.target
        THEN (lower_target :> wikilink.target) @@ target_map
        ELSE target_map

RECURSIVE build_target_map(_, _)
build_target_map(wikilinks, n) ==
    IF n = 0 THEN EmptyMap
    ELSE target_map_insert(build_target_map(wikilinks, n - 1), wikilinks[n])

\* a defect of the second loop: insert() on the map replaces the set
display_text_map_insert_overwrite(display_text_map, target_map, wikilink) ==
    LET lower_display_text == to_lowercase(wikilink.display_text)
        lower_target == to_lowercase(wikilink.target)
    IN  IF lower_target \in DOMAIN target_map
        THEN (lower_display_text :> {target_map[lower_target]}) @@ display_text_map
        ELSE display_text_map

\* the wikilink that is added to the set of targets under its display text
canonical_target_raw(target_map, wikilink) == wikilink.target

\* target_map.get(&lower_target): the canonical spelling, not the
\* wikilink's own
canonical_target(target_map, wikilink) == target_map[to_lowercase(wikilink.target)]

\* one iteration of the second loop: the canonical target joins the set
\* kept under the case-folded display text
display_text_map_insert(display_text_map, target_map, wikilink) ==
    LET lower_display_text == to_lowercase(wikilink.display_text)
        lower_target == to_lowercase(wikilink.target)
        old == IF lower_display_text \in DOMAIN display_text_map
               THEN display_text_map[lower_display_text] ELSE {}
    IN  IF lower_target \in DOMAIN target_map
        THEN (lower_display_text :> (old \cup {canonical_target(target_map, wikilink)}))
                 @@ display_text_map
        ELSE display_text_map

RECURSIVE build_display_text_map(_, _, _)
build_display_text_map(wikilinks, target_map, n) ==
    IF n = 0 THEN EmptyMap
    ELSE display_text_map_insert(
             build_display_text_map(wikilinks, target_map, n - 1),
             target_map, wikilinks[n])

\* the keys of matches_by_text for one file
found_text_keys(file) ==
    {to_lowercase(file.unambiguous[i].found_text) : i \in 1..Len(file.unambiguous)}

\* a defect of the grouping: a record is kept only when its text is written
\* as the key is
text_matches_exact_case(file, key) ==
    LET Same(m) == m.found_text = key
    IN  SelectSeq(file.unambiguous, Same)

\* matches_by_text[key]: the file's records with that folded text, in order
text_matches(file, key) ==
    LET Same(m) == to_lowercase(m.found_text) = key
    IN  SelectSeq(file.unambiguous, Same)

\* a defect of the test on targets.len(): two targets still pass
is_ambiguous_over_two(targets) == Cardinality(targets) > 2

\* targets.len() > 1
is_ambiguous(targets) == Cardinality(targets) > 1

\* a defect of the else branch: the unclassified records are lost
drop_unclassified(acc, group) == acc

\* lines 135-142: the records of a text that the display-text map does not
\* hold go back into the file's unambiguous list (after a warning)
extend_with_unclassified(acc, group) == [acc EXCEPT !.unambiguous = @ \o group]

\* a defect of the ambiguous branch: the records are pushed as a group and
\* put back into the file's list as well
push_ambiguous_match_keeping_records(acc, found_text_lower, targets, group) ==
    [acc EXCEPT !.ambiguous = Append(@, [display_text |-> found_text_lower,
                                         targets |-> targets,
                                         matches |-> group]),
                !.unambiguous = @ \o group]

\* lines 122-128: the records of an ambiguous text are pushed as one
\* AmbiguousMatch and not put back
push_ambiguous_match(acc, found_text_lower, targets, group) ==
    [acc EXCEPT !.ambiguous = Append(@, [display_text |-> found_text_lower,
                                         targets |-> targets,
                                         matches |-> group])]

\* the body of "for (found_text_lower, text_matches) in matches_by_text",
\* run over the keys in the order key_order; acc = [unambiguous, ambiguous].
\* targets_vec[key] is the order in which the HashSet of targets is iterated.
RECURSIVE process_groups(_, _, _, _, _)
process_groups(file, key_order, n, display_text_map, targets_vec) ==
    IF n = 0 THEN [unambiguous |-> <<>>, ambiguous |-> <<>>]
    ELSE
      LET acc == process_groups(file, key_order, n - 1, display_text_map, targets_vec)
          found_text_lower == key_order[n]
          group == text_matches(file, found_text_lower)
      IN  IF found_text_lower \in DOMAIN display_text_map
          THEN IF is_ambiguous(display_text_map[found_text_lower])
               THEN push_ambiguous_match(acc, found_text_lower,
                                         targets_vec[found_text_lower], group)
               ELSE [acc EXCEPT !.unambiguous = @ \o group]
          ELSE extend_with_unclassified(acc, group)

\* a defect of the last step: the groups left in the order they were found
sort_by_display_text_left_out(groups) == groups

\* slice::sort_by on display_text: a stable insertion into sorted order
RECURSIVE sort_by_display_text(_)
sort_by_display_text(groups) ==
    IF groups = <<>> THEN <<>>
    ELSE
      LET rest == sort_by_display_text(SubSeq(groups, 1, Len(groups) - 1))
          last == groups[Len(groups)]
          \* the first position whose element sorts strictly after `last`
          after == {i \in 1..Len(rest) :
                      StrCmp(rest[i].display_text, last.display_text) = "Greater"}
          at == IF after = {} THEN Len(rest) + 1 ELSE MinOf(after)
      IN  SubSeq(rest, 1, at - 1) \o <<last>> \o SubSeq(rest, at, Len(rest))

\* the loop over markdown_files; key_orders[i] is the iteration order of
\* file i's matches_by_text
RECURSIVE classify_files(_, _, _, _, _)
classify_files(files, n, key_orders, display_text_map, targets_vec) ==
    IF n = 0 THEN [files |-> <<>>, ambiguous |-> <<>>]
    ELSE
      LET acc == classify_files(files, n - 1, key_orders, display_text_map, targets_vec)
          r == process_groups(files[n], key_orders[n], Len(key_orders[n]),
                              display_text_map, targets_vec)
      IN  [files |-> Append(acc.files, [files[n] EXCEPT !.unambiguous = r.unambiguous]),
           ambiguous |-> acc.ambiguous \o r.ambiguous]

\* the function as a whole, for one choice of the hash iteration orders
identify_and_remove_ambiguous_matches(files, wikilinks, key_orders, targets_vec) ==
    LET target_map == build_target_map(wikilinks, Len(wikilinks))
        display_text_map == build_display_text_map(wikilinks, target_map, Len(wikilinks))
        r == classify_files(files, Len(files), key_orders, display_text_map, targets_vec)
    IN  [files |-> r.files, ambiguous |-> sort_by_display_text(r.ambiguous)]

\* the display_text_map of the current corpus
DisplayTextMap(wikilinks) ==
    build_display_text_map(wikilinks, build_target_map(wikilinks, Len(wikilinks)),
                           Len(wikilinks))

\* every iteration order of every HashSet of targets
TargetsVecs(display_text_map) ==
    {tv \in [DOMAIN display_text_map -> UNION {Perms(display_text_map[k]) :
                                               k \in DOMAIN display_text_map}] :
        \A k \in DOMAIN display_text_map : tv[k] \in Perms(display_text_map[k])}

\* every iteration order of every file's matches_by_text
RECURSIVE KeyOrders(_)
KeyOrders(files) ==
    IF files = <<>> THEN {<<>>}
    ELSE {<<p>> \o rest : p \in Perms(found_text_keys(Head(files))),
                          rest \in KeyOrders(Tail(files))}

\* the Vec<BackPopulateMatch> of lines 52-56: every file's list, in file order
RECURSIVE unambiguous_matches(_)
unambiguous_matches(files) ==
    IF files = <<>> THEN <<>>
    ELSE Head(files).unambiguous \o unambiguous_matches(Tail(files))

----------------------------------------------------------------------------
(* Rewrite application: apply_back_populate_changes *)

\* the records of one line, by descending byte offset
RECURSIVE by_descending_position(_)
by_descending_position(S) ==
    IF S = {} THEN <<>>
    ELSE LET m == CHOOSE x \in S : \A y \in S : y.position <= x.position
         IN  <<m>> \o by_descending_position(S \ {m})

\* replace_range(position .. position + found_text.len(), replacement),
\* back to front so that the earlier offsets stay valid
RECURSIVE apply_line_replacements(_, _)
apply_line_replacements(line, sorted_matches) ==
    IF sorted_matches = <<>> THEN line
    ELSE LET m == Head(sorted_matches)
             start == m.position
             end == start + Len(m.found_text)
         IN  apply_line_replacements(
                 SubSeq(line, 1, start) \o m.replacement \o SubSeq(line, end + 1, Len(line)),
                 Tail(sorted_matches))

\* the content of one file with its unambiguous records applied
apply_to_file(file) ==
    [file EXCEPT !.content =
        [i \in 1..Len(file.content) |->
            apply_line_replacements(file.content[i],
                by_descending_position(
                    {m \in SeqToSet(file.unambiguous) : m.line_number = i}))]]

apply_back_populate_changes(files) ==
    [i \in 1..Len(files) |-> apply_to_file(files[i])]

----------------------------------------------------------------------------
(* Records *)

BackPopulateMatch(path, line, text, found, replacement, position, in_table) ==
    [relative_path |-> path, line_number |-> line, frontmatter_line_count |-> 0,
     line_text |-> text, found_text |-> found, replacement |-> replacement,
     position |-> position, in_markdown_table |-> in_table]

MarkdownFileInfo(path, aliases, content, matches) ==
    [path |-> path, aliases |-> aliases, content |-> content, unambiguous |-> matches]

IdleTracker == [kind |-> "TripleBacktick", location |-> "Outside"]

\* nothing has been run before
NoFirstPass == [files |-> <<>>, applied |-> <<>>, outcome |-> "running"]

\* no Config has been read
NoConfig == "unread"

\* no call of highlight_matches has been made
NoHighlight == [text |-> <<>>, positions |-> <<>>, match_length |-> 0,
                state |-> "idle", returned |-> <<>>]

\* a Result: Ok(value) or Err(err); nothing has returned yet
Result(status, value, err) == [status |-> status, value |-> value, err |-> err]

NoResult == Result("running", <<>>, <<>>)

----------------------------------------------------------------------------
(* back_populate.rs: write_back_populate_table, the tables of the report *)

\* utils::escape_pipe: replace('|', "\|")
RECURSIVE escape_pipe(_)
escape_pipe(text) ==
    IF text = <<>> THEN <<>>
    ELSE (IF Head(text) = 124 THEN <<92, 124>> ELSE <<Head(text)>>)
         \o escape_pipe(Tail(text))

\* utils::escape_brackets: replace('[', "\[").replace(']', "\]")
RECURSIVE escape_brackets(_)
escape_brackets(text) ==
    IF text = <<>> THEN <<>>
    ELSE (IF Head(text) \in {91, 93} THEN <<92, Head(text)>> ELSE <<Head(text)>>)
         \o escape_brackets(Tail(text))

\* Path::file_stem of a path of the model: a file name ending in ".md"
file_stem(path) == strip_md_extension(path)

\* a stable sort_by: the elements of `idx` by ascending key, equal keys in
\* ascending order of the elements themselves (their place in the Vec);
\* <<j, k>> \in not_greater says that j's key is not greater than k's
RECURSIVE stable_sort(_, _)
stable_sort(idx, not_greater) ==
    IF idx = {} THEN <<>>
    ELSE LET least == {j \in idx : \A k \in idx : <<j, k>> \in not_greater}
             first == MinOf(least)
         IN  <<first>> \o stable_sort(idx \ {first}, not_greater)

\* lines 309-311: sorted_found_texts, the case-folded found texts in order
RECURSIVE sorted_found_texts(_)
sorted_found_texts(keys) ==
    IF keys = {} THEN <<>>
    ELSE LET key == CHOOSE k \in keys : \A x \in keys : StrCmp(k, x) # "Greater"
         IN  <<key>> \o sorted_found_texts(keys \ {key})

\* lines 333-352: the matches of one found text, by file stem ignoring case
\* and then by line number
sorted_matches(matches, key) ==
    LET idx == {k \in 1..Len(matches) : to_lowercase(matches[k].found_text) = key}
        file_cmp(j, k) == StrCmp(to_lowercase(file_stem(matches[j].relative_path)),
                                 to_lowercase(file_stem(matches[k].relative_path)))
        not_greater ==
            {jk \in idx \X idx :
                \/ file_cmp(jk[1], jk[2]) = "Less"
                \/ /\ file_cmp(jk[1], jk[2]) = "Equal"
                   /\ matches[jk[1]].line_number <= matches[jk[2]].line_number}
        order == stable_sort(idx, not_greater)
    IN  [n \in 1..Len(order) |-> matches[order[n]]]

\* a line entry that keeps the offset of its first match only
LineInfo_of_first_match(line_number, line_text, positions) ==
    [line_number |-> line_number, line_text |-> line_text,
     positions |-> <<positions[1]>>]

LineInfo(line_number, line_text, positions) ==
    [line_number |-> line_number, line_text |-> line_text, positions |-> positions]

\* lines 166-225, consolidate_matches: one entry per file, with the file's
\* lines in order, the offsets of each line in the order of the matches,
\* and the replacement and table flag of the file's last match
consolidate_matches(matches) ==
    LET paths == {matches[k].relative_path : k \in 1..Len(matches)}
        of_file(path) == {k \in 1..Len(matches) : matches[k].relative_path = path}
        on_line(path, n) == {k \in of_file(path) : matches[k].line_number = n}
        ascending(S) == stable_sort(S, {jk \in S \X S : jk[1] <= jk[2]})
        line_info(path, n) ==
            LET ks == ascending(on_line(path, n))
            IN  LineInfo(n + matches[ks[1]].frontmatter_line_count,
                         matches[ks[1]].line_text,
                         [p \in 1..Len(ks) |-> matches[ks[p]].position])
        lines_of(path) ==
            LET order == ascending({matches[k].line_number : k \in of_file(path)})
            IN  [p \in 1..Len(order) |-> line_info(path, order[p])]
        last(path) == matches[CHOOSE k \in of_file(path) : \A j \in of_file(path) : j <= k]
        entry(path) ==
            [file_path |-> path, line_info |-> lines_of(path),
             replacement |-> last(path).replacement,
             in_markdown_table |-> last(path).in_markdown_table]
        RECURSIVE by_file_stem(_)
        by_file_stem(ps) ==
            IF ps = {} THEN <<>>
            ELSE LET p == CHOOSE x \in ps : \A y \in ps :
                              StrCmp(file_stem(x), file_stem(y)) # "Greater"
                 IN  <<entry(p)>> \o by_file_stem(ps \ {p})
    IN  by_file_stem(paths)

\* replacement columns whose pipes are escaped whatever the table flag
replacement_columns_escaping_twice(m) ==
    <<escape_pipe(m.replacement), escape_brackets(escape_pipe(m.replacement))>>

\* replacement columns that show the stored replacement as it is
replacement_columns_as_stored(m) == <<m.replacement, escape_brackets(m.replacement)>>

\* lines 399-407: the two replacement columns of a row
replacement_columns(m) ==
    LET replacement == IF m.in_markdown_table
                       THEN m.replacement
                       ELSE escape_pipe(m.replacement)
    IN  <<replacement, escape_brackets(replacement)>>

\* lines 380-411: the rows of one table, one per line of each file
table_rows(consolidated) ==
    LET row(m, line) ==
            [file |-> to_wikilink(file_stem(m.file_path)),
             line |-> line.line_number,
             occurrences |-> Len(line.positions),
             replacement |-> replacement_columns(m)[1],
             source_text |-> replacement_columns(m)[2]]
        RECURSIVE rows_from(_)
        rows_from(n) ==
            IF n > Len(consolidated) THEN <<>>
            ELSE [p \in 1..Len(consolidated[n].line_info) |->
                     row(consolidated[n], consolidated[n].line_info[p])]
                 \o rows_from(n + 1)
    IN  rows_from(1)

\* lines 266-436 with is_unambiguous_match set: one table per found text
write_back_populate_table(matches) ==
    LET keys == sorted_found_texts({to_lowercase(matches[k].found_text) :
                                       k \in 1..Len(matches)})
    IN  [n \in 1..Len(keys) |->
            [found |-> keys[n],
             rows |-> table_rows(consolidate_matches(sorted_matches(matches, keys[n])))]]

\* lines 380-397 without is_unambiguous_match: the rows have no
\* replacement columns
ambiguous_table_rows(consolidated) ==
    LET rows == table_rows(consolidated)
    IN  [n \in 1..Len(rows) |->
            [file |-> rows[n].file, line |-> rows[n].line,
             occurrences |-> rows[n].occurrences]]

\* lines 266-436 without is_unambiguous_match: one table per found text
write_ambiguous_table(matches) ==
    LET keys == sorted_found_texts({to_lowercase(matches[k].found_text) :
                                       k \in 1..Len(matches)})
    IN  [n \in 1..Len(keys) |->
            [found |-> keys[n],
             rows |-> ambiguous_table_rows(
                          consolidate_matches(sorted_matches(matches, keys[n])))]]

\* a defect of write_ambiguous_matches: only the first group is written
write_ambiguous_matches_first_only(ambiguous) ==
    IF ambiguous = <<>> THEN <<>>
    ELSE <<[heading |-> ambiguous[1].display_text,
            targets |-> ambiguous[1].targets,
            tables |-> write_ambiguous_table(ambiguous[1].matches)]>>

\* write_ambiguous_matches, lines 227-264: for every AmbiguousMatch of the
\* list a heading with its display text, its targets, and the tables of its
\* matches
write_ambiguous_matches(ambiguous) ==
    [g \in 1..Len(ambiguous) |->
        [heading |-> ambiguous[g].display_text,
         targets |-> ambiguous[g].targets,
         tables |-> write_ambiguous_table(ambiguous[g].matches)]]

----------------------------------------------------------------------------
(* The classifier on hand-built repositories, as the tests of                *)
(* ambiguous_matches_tests.rs build them, inside write_back_populate_tables  *)

\* "Ed", "ed", "AWS", "aws", "Zed"
S_Ed == <<69, 100>>
S_ed == <<101, 100>>
S_AWS == <<65, 87, 83>>
S_aws == <<97, 119, 115>>
S_Zed == <<90, 101, 100>>
\* "Ed B", "Ed S", "ed b"
S_Ed_B == <<69, 100, 32, 66>>
S_Ed_S == <<69, 100, 32, 83>>
S_ed_b == <<101, 100, 32, 98>>
\* "a.md", "B.md"
P_a == <<97, 46, 109, 100>>
P_B == <<66, 46, 109, 100>>

\* the names a corpus is drawn from: an alias shared by two people, a case
\* variant of one of them, and two files whose names differ only by case
TestWikilinks ==
    {Wikilink(S_Ed, S_Ed_B, TRUE), Wikilink(S_Ed, S_Ed_S, TRUE),
     Wikilink(S_ed, S_ed_b, TRUE),
     Wikilink(S_AWS, S_AWS, FALSE), Wikilink(S_aws, S_aws, FALSE)}

\* the texts of the hand-built match records; "Zed" is in no corpus
FoundTexts == {S_Ed, S_ed, S_AWS, S_aws, S_Zed}

TestPaths == {P_a, P_B}

FoundTextSeqs == UNION {[1..k -> FoundTexts] : k \in 0..MaxMatches}

\* a file whose line i is the text found_texts[i], with one record per line
HandBuiltFile(path, found_texts) ==
    MarkdownFileInfo(path, <<>>, found_texts,
        [i \in 1..Len(found_texts) |->
            BackPopulateMatch(path, i, found_texts[i], found_texts[i],
                              to_wikilink(found_texts[i]), 0, FALSE)])

Init ==
    /\ pc = "start"
    /\ \E corpus \in SUBSET TestWikilinks :
           wikilinks_sorted \in sort_and_build_wikilinks_ac(corpus)
    /\ \E order \in Perms(TestPaths), texts \in [TestPaths -> FoundTextSeqs] :
           /\ Len(texts[P_a]) + Len(texts[P_B]) <= MaxMatches
           /\ markdown_files =
                  [i \in 1..Len(order) |-> HandBuiltFile(order[i], texts[order[i]])]
    /\ input_files = markdown_files
    /\ ambiguous_matches = <<>>
    /\ applied = <<>>
    /\ tracker = IdleTracker
    /\ updates = <<>>
    /\ pass = "first"
    /\ first_pass = NoFirstPass
    /\ config = NoConfig
    /\ config_file = NoConfig
    /\ disk = <<>>
    /\ writes = <<>>
    /\ tasks = <<>>
    /\ shared_wikilinks = <<>>
    /\ scan_result = NoResult
    /\ report = <<>>
    /\ outcome = "running"
    /\ highlight = NoHighlight

\* write_back_populate_tables, lines 38-45: return when no file has a match
HasMatches ==
    /\ pc = "start"
    /\ pc' = IF \E i \in 1..Len(markdown_files) : markdown_files[i].unambiguous # <<>>
             THEN "identify" ELSE "done"
    /\ UNCHANGED <<wikilinks_sorted, markdown_files, input_files, ambiguous_matches,
                   applied, tracker, updates, pass, first_pass>>
    /\ UNCHANGED <<report, run_vars, par_vars>>
    /\ UNCHANGED highlight

\* write_back_populate_tables, lines 47-58: the classification, then the
\* test whether any unambiguous record is left
IdentifyAndRemoveAmbiguousMatches ==
    /\ pc = "identify"
    /\ \E key_orders \in KeyOrders(markdown_files),
          targets_vec \in TargetsVecs(DisplayTextMap(wikilinks_sorted)) :
         LET r == identify_and_remove_ambiguous_matches(
                      markdown_files, wikilinks_sorted, key_orders, targets_vec)
         IN  /\ markdown_files' = r.files
             /\ ambiguous_matches' = r.ambiguous
             /\ pc' = IF unambiguous_matches(r.files) # <<>> THEN "apply" ELSE "done"
    /\ UNCHANGED <<wikilinks_sorted, input_files, applied, tracker, updates, pass,
                   first_pass>>
    /\ UNCHANGED <<report, run_vars, par_vars>>
    /\ UNCHANGED highlight

\* write_back_populate_tables, line 66: the unambiguous records are applied
ApplyBackPopulateChanges ==
    /\ pc = "apply"
    /\ applied' = unambiguous_matches(markdown_files)
    /\ report' = write_back_populate_table(unambiguous_matches(markdown_files))
    /\ markdown_files' = apply_back_populate_changes(markdown_files)
    /\ pc' = "done"
    /\ UNCHANGED <<wikilinks_sorted, input_files, ambiguous_matches, tracker, updates,
                   pass, first_pass>>
    /\ UNCHANGED <<run_vars, par_vars>>
    /\ UNCHANGED highlight

Next ==
    \/ HasMatches
    \/ IdentifyAndRemoveAmbiguousMatches
    \/ ApplyBackPopulateChanges

Spec == Init /\ [][Next]_vars

----------------------------------------------------------------------------
(* One tracker fed a sequence of contents: a CodeBlockExcluder the lines of  *)
(* a document, an InlineCodeExcluder the characters of a line                *)

\* "```", "```rust", "  ```", "x", "``", "x```"
TrackerLines ==
    {<<96, 96, 96>>, <<96, 96, 96, 114, 117, 115, 116>>, <<32, 32, 96, 96, 96>>,
     <<120>>, <<96, 96>>, <<120, 96, 96, 96>>}

\* '`', 'a', ' '
TrackerChars == {96, 97, 32}

TrackerContents(t) ==
    IF t.kind = "TripleBacktick"
    THEN {Line(s) : s \in TrackerLines}
    ELSE {Char(c) : c \in TrackerChars}

TrackerInit ==
    /\ pc = "tracking"
    /\ tracker \in {new_with_delimiter("TripleBacktick"), new_with_delimiter("Backtick")}
    /\ updates = <<>>
    /\ wikilinks_sorted = <<>>
    /\ markdown_files = <<>>
    /\ input_files = <<>>
    /\ ambiguous_matches = <<>>
    /\ applied = <<>>
    /\ pass = "first"
    /\ first_pass = NoFirstPass
    /\ config = NoConfig
    /\ config_file = NoConfig
    /\ disk = <<>>
    /\ writes = <<>>
    /\ tasks = <<>>
    /\ shared_wikilinks = <<>>
    /\ scan_result = NoResult
    /\ report = <<>>
    /\ outcome = "running"
    /\ highlight = NoHighlight

Update ==
    /\ pc = "tracking"
    /\ Len(updates) < MaxUpdates
    /\ \E content \in TrackerContents(tracker) :
         /\ tracker' = update(tracker, content)
         /\ updates' = Append(updates, content)
    /\ UNCHANGED <<pc, wikilinks_sorted, markdown_files, input_files,
                   ambiguous_matches, applied, pass, first_pass>>
    /\ UNCHANGED <<report, run_vars, par_vars>>
    /\ UNCHANGED highlight

TrackerNext == Update

TrackerSpec == TrackerInit /\ [][TrackerNext]_vars

----------------------------------------------------------------------------
(* wikilink.rs: the names a document's content contributes *)

\* create_filename_wikilink: the file name without ".md", as a non-alias name
create_filename_wikilink(filename) ==
    Wikilink(strip_md_extension(filename), strip_md_extension(filename), FALSE)

\* parse_wikilink, called with the iterator at content[i], just after "[[":
\* [found, wikilink, next]; next is where the iterator stands afterwards
RECURSIVE parse_wikilink_loop(_, _, _, _, _, _)
parse_wikilink_loop(content, i, link_text, is_alias, target, escaped) ==
    IF i > Len(content) THEN [found |-> FALSE, next |-> i]
    ELSE
      LET c == content[i]
      IN  IF escaped
          THEN IF c = 124 /\ ~is_alias
               THEN parse_wikilink_loop(content, i + 1, <<>>, TRUE, trim(link_text), FALSE)
               ELSE parse_wikilink_loop(content, i + 1, Append(link_text, c),
                                        is_alias, target, FALSE)
          ELSE IF c = 92
          THEN parse_wikilink_loop(content, i + 1, link_text, is_alias, target, TRUE)
          ELSE IF c = 124 /\ ~is_alias
          THEN parse_wikilink_loop(content, i + 1, <<>>, TRUE, trim(link_text), FALSE)
          ELSE IF c = 93
          THEN IF i + 1 <= Len(content) /\ content[i + 1] = 93
               THEN [found |-> TRUE, next |-> i + 2,
                     wikilink |-> IF is_alias
                                  THEN Wikilink(trim(link_text), target, TRUE)
                                  ELSE Wikilink(trim(link_text), trim(link_text), FALSE)]
               ELSE parse_wikilink_loop(content, i + 1, Append(link_text, c),
                                        is_alias, target, FALSE)
          ELSE parse_wikilink_loop(content, i + 1, Append(link_text, c),
                                   is_alias, target, FALSE)

parse_wikilink(content, i) == parse_wikilink_loop(content, i, <<>>, FALSE, <<>>, FALSE)

\* extract_wikilinks_from_content, from content[i] on: "[[" not preceded by
\* "!" starts a link; an unclosed link consumes the rest of the line
RECURSIVE extract_wikilinks_from(_, _)
extract_wikilinks_from(content, i) ==
    IF i > Len(content) THEN <<>>
    ELSE IF content[i] = 91 /\ i + 1 <= Len(content) /\ content[i + 1] = 91
    THEN IF i > 1 /\ content[i - 1] = 33
         THEN extract_wikilinks_from(content, i + 2)
         ELSE LET r == parse_wikilink(content, i + 2)
              IN  IF r.found
                  THEN <<r.wikilink>> \o extract_wikilinks_from(content, r.next)
                  ELSE <<>>
    ELSE extract_wikilinks_from(content, i + 1)

extract_wikilinks_from_content(content) == extract_wikilinks_from(content, 1)

----------------------------------------------------------------------------
(* scan.rs: the corpus of a repository *)

\* process_content, the valid names of one file: its file name, its
\* aliases, the links of its lines
process_content_alias_targets_itself(file) ==
    {create_filename_wikilink(file.path)}
    \cup {Wikilink(file.aliases[k], file.aliases[k], TRUE) : k \in 1..Len(file.aliases)}
    \cup UNION {SeqToSet(extract_wikilinks_from_content(file.content[n])) :
                   n \in 1..Len(file.content)}

process_content(file) ==
    {create_filename_wikilink(file.path)}
    \cup {Wikilink(file.aliases[k], create_filename_wikilink(file.path).target, TRUE) :
             k \in 1..Len(file.aliases)}
    \cup UNION {SeqToSet(extract_wikilinks_from_content(file.content[n])) :
                   n \in 1..Len(file.content)}

\* scan_markdown_files: the HashSet all_wikilinks, extended by every file
all_wikilinks_of(files) == UNION {process_content(files[i]) : i \in 1..Len(files)}

----------------------------------------------------------------------------
(* The line match extractor *)

\* the patterns, as indices into wikilinks, that match at offset s (1-based)
\* of the line; the automaton is ASCII case-insensitive
patterns_at(lower_line, s, wikilinks) ==
    {k \in 1..Len(wikilinks) :
        /\ wikilinks[k].display_text # <<>>
        /\ StartsWithAt(lower_line, s, to_lowercase(wikilinks[k].display_text))}

\* MatchKind::LeftmostLongest among the patterns matching at one offset: the
\* longest, and among equally long ones the earliest in the pattern order
preferred_pattern(candidates, wikilinks) ==
    CHOOSE k \in candidates : \A j \in candidates :
        \/ Len(wikilinks[k].display_text) > Len(wikilinks[j].display_text)
        \/ /\ Len(wikilinks[k].display_text) = Len(wikilinks[j].display_text)
           /\ k <= j

\* ac.find_iter(line): the non-overlapping matches from offset s on, each
\* [pattern, start, end) with 0-based byte offsets
RECURSIVE find_iter(_, _, _)
find_iter(lower_line, s, wikilinks) ==
    IF s > Len(lower_line) THEN <<>>
    ELSE LET candidates == patterns_at(lower_line, s, wikilinks)
         IN  IF candidates = {}
             THEN find_iter(lower_line, s + 1, wikilinks)
             ELSE LET k == preferred_pattern(candidates, wikilinks)
                      n == Len(wikilinks[k].display_text)
                  IN  <<[pattern |-> k, start |-> s - 1, end |-> s - 1 + n]>>
                      \o find_iter(lower_line, s + n, wikilinks)

\* the least offset (1-based) at or after i where p occurs in line, 0 if none
find_from(line, i, p) ==
    LET at == {j \in i..Len(line) : StartsWithAt(line, j, p)}
    IN  IF at = {} THEN 0 ELSE MinOf(at)

\* the spans [start, end) of the existing links "[[...]]" of the line, each
\* closed by the first "]]" after its "[["
RECURSIVE link_spans(_, _)
link_spans(line, i) ==
    LET open == find_from(line, i, <<91, 91>>)
        close == IF open = 0 THEN 0 ELSE find_from(line, open + 2, <<93, 93>>)
    IN  IF open = 0 \/ close = 0 THEN {}
        ELSE {[start |-> open - 1, end |-> close + 1]} \cup link_spans(line, close + 2)

\* the match [start, end) lies in an existing link
is_within_wikilink(line, start, end) ==
    \E zone \in link_spans(line, 1) : start < zone.end /\ zone.start < end

\* the InlineCodeExcluder of a line after its first n characters
RECURSIVE inline_code_tracker(_, _)
inline_code_tracker(line, n) ==
    IF n = 0 THEN new_with_delimiter("Backtick")
    ELSE update(inline_code_tracker(line, n - 1), Char(line[n]))

\* the match starting at offset start (0-based) is in an inline code span
in_inline_code(line, start) == should_skip(inline_code_tracker(line, start + 1))

\* the CodeBlockExcluder of a document after its first n lines
RECURSIVE code_block_tracker(_, _)
code_block_tracker(content, n) ==
    IF n = 0 THEN new_with_delimiter("TripleBacktick")
    ELSE update(code_block_tracker(content, n - 1), Line(content[n]))

\* a defect of the self-reference test: the document's own name is not tested
is_self_reference_by_target_only(file, found_text, wikilink) ==
    strip_md_extension(wikilink.target) = strip_md_extension(file.path)

\* the document never links to itself: the found text is its own name or
\* one of its aliases, ignoring case, or the resolved target is the document
is_self_reference(file, found_text, wikilink) ==
    \/ to_lowercase(found_text) = to_lowercase(strip_md_extension(file.path))
    \/ \E k \in 1..Len(file.aliases) :
           to_lowercase(found_text) = to_lowercase(file.aliases[k])
    \/ strip_md_extension(wikilink.target) = strip_md_extension(file.path)

should_create_match(file, line, mat, found_text, wikilink) ==
    /\ ~in_inline_code(line, mat.start)
    /\ ~is_within_wikilink(line, mat.start, mat.end)
    /\ ~is_self_reference(file, found_text, wikilink)

\* a pipe-delimited line: a row of a markdown table
is_in_markdown_table(line) ==
    LET trimmed == trim(line)
    IN  trimmed # <<>> /\ Head(trimmed) = 124 /\ trimmed[Len(trimmed)] = 124

\* replace('|', "\|")
RECURSIVE escape_table_pipe(_)
escape_table_pipe(text) ==
    IF text = <<>> THEN <<>>
    ELSE (IF Head(text) = 124 THEN <<92, 124>> ELSE <<Head(text)>>)
         \o escape_table_pipe(Tail(text))

\* the replacement stored in the record: the link to the resolved target
\* showing the found text, its pipe escaped in a table row
format_replacement(wikilink, found_text, in_markdown_table) ==
    LET replacement == to_aliased_wikilink(wikilink.target, found_text)
    IN  IF in_markdown_table THEN escape_table_pipe(replacement) ELSE replacement

\* the records of the accepted matches among `found`, in order
RECURSIVE collect_matches(_, _, _, _, _)
collect_matches(file, line_idx, line, found, wikilinks) ==
    IF found = <<>> THEN <<>>
    ELSE
      LET mat == Head(found)
          wikilink == wikilinks[mat.pattern]
          found_text == SubSeq(line, mat.start + 1, mat.end)
          in_markdown_table == is_in_markdown_table(line)
          rest == collect_matches(file, line_idx, line, Tail(found), wikilinks)
      IN  IF should_create_match(file, line, mat, found_text, wikilink)
          THEN <<BackPopulateMatch(file.path, line_idx + 1, line, found_text,
                     format_replacement(wikilink, found_text, in_markdown_table),
                     mat.start, in_markdown_table)>> \o rest
          ELSE rest

process_line(file, line_idx, line, wikilinks) ==
    collect_matches(file, line_idx, line, find_iter(to_lowercase(line), 1, wikilinks),
                    wikilinks)

\* the records of the first n lines; a line is skipped while the fence
\* tracker, updated with it, says so
RECURSIVE process_lines(_, _, _)
process_lines(file, n, wikilinks) ==
    IF n = 0 THEN <<>>
    ELSE process_lines(file, n - 1, wikilinks)
         \o (IF should_skip(code_block_tracker(file.content, n)) THEN <<>>
             ELSE process_line(file, n - 1, file.content[n], wikilinks))

process_file_for_back_populate_matches(file, wikilinks) ==
    [file EXCEPT !.unambiguous = process_lines(file, Len(file.content), wikilinks)]

\* MarkdownFiles::process_files_for_back_populate_matches, with no file filter
process_files_for_back_populate_matches(files, wikilinks) ==
    [i \in 1..Len(files) |-> process_file_for_back_populate_matches(files[i], wikilinks)]

----------------------------------------------------------------------------
(* A whole run on a small repository, and a second run on what the first     *)
(* one wrote: scan_folders, find_all_back_populate_matches,                  *)
(* write_back_populate_tables, persist                                       *)

\* number of lines of a document
MaxLines == 2

\* "Will", "will", "Other", "other"
S_Will == <<87, 105, 108, 108>>
S_will == <<119, 105, 108, 108>>
S_Other == <<79, 116, 104, 101, 114>>
S_other == <<111, 116, 104, 101, 114>>
\* "tomato", "Tomato", "tomatoes"
S_tomato == <<116, 111, 109, 97, 116, 111>>
S_Tomato == <<84, 111, 109, 97, 116, 111>>
S_tomatoes == S_tomato \o <<101, 115>>
\* ".md", "William.md"
S_md == <<46, 109, 100>>
S_William_md == S_Will \o <<105, 97, 109>> \o S_md

\* "Will will"
L_mentions == S_Will \o <<32>> \o S_will
\* "| Will | will |"
L_table == <<124, 32>> \o S_Will \o <<32, 124, 32>> \o S_will \o <<32, 124>>
\* "```"
L_fence == <<96, 96, 96>>
\* "`Will` other"
L_inline_code == <<96>> \o S_Will \o <<96, 32>> \o S_other
\* "[[William.md|Will]]"
L_link == <<91, 91>> \o S_William_md \o <<124>> \o S_Will \o <<93, 93>>
\* "x tomatoes"
L_tomatoes == <<120, 32>> \o S_tomatoes
\* "tomato [[tomato|Tomato]]"
L_tomato == S_tomato \o <<32, 91, 91>> \o S_tomato \o <<124>> \o S_Tomato \o <<93, 93>>

SampleLines ==
    {L_mentions, L_table, L_fence, L_inline_code, L_link, L_tomatoes, L_tomato}

SampleContents == UNION {[1..n -> SampleLines] : n \in 0..MaxLines}

\* Will.md and Other.md hold the same text; tomato.md declares the alias
\* "tomatoes"; tomatoes.md has only its name
WillFile(content) == MarkdownFileInfo(S_Will \o S_md, <<>>, content, <<>>)
OtherFile(content) == MarkdownFileInfo(S_Other \o S_md, <<>>, content, <<>>)
TomatoFile == MarkdownFileInfo(S_tomato \o S_md, <<S_tomatoes>>, <<>>, <<>>)
TomatoesFile == MarkdownFileInfo(S_tomatoes \o S_md, <<>>, <<>>, <<>>)

SampleRepositories ==
    {<<WillFile(content), OtherFile(content)>> \o name_files :
        content \in SampleContents,
        name_files \in {<<>>, <<TomatoFile>>, <<TomatoesFile>>,
                        <<TomatoFile, TomatoesFile>>}}

ScanInit ==
    /\ pc = "scan"
    /\ markdown_files \in SampleRepositories
    /\ wikilinks_sorted = <<>>
    /\ input_files = <<>>
    /\ ambiguous_matches = <<>>
    /\ applied = <<>>
    /\ tracker = IdleTracker
    /\ updates = <<>>
    /\ pass = "first"
    /\ first_pass = NoFirstPass
    /\ config = NoConfig
    /\ config_file = NoConfig
    /\ disk = <<>>
    /\ writes = <<>>
    /\ tasks = <<>>
    /\ shared_wikilinks = <<>>
    /\ scan_result = NoResult
    /\ report = <<>>
    /\ outcome = "running"
    /\ highlight = NoHighlight

\* scan_folders: the names of every file, sorted
ScanFolders ==
    /\ pc = "scan"
    /\ wikilinks_sorted' \in sort_and_build_wikilinks_ac(all_wikilinks_of(markdown_files))
    /\ pc' = "find"
    /\ UNCHANGED <<markdown_files, input_files, ambiguous_matches, applied, tracker,
                   updates, pass, first_pass>>
    /\ UNCHANGED <<report, run_vars, par_vars>>
    /\ UNCHANGED highlight

\* find_all_back_populate_matches: every file's lines are searched
FindAllBackPopulateMatches ==
    /\ pc = "find"
    /\ markdown_files' =
           process_files_for_back_populate_matches(markdown_files, wikilinks_sorted)
    /\ input_files' = markdown_files'
    /\ pc' = "start"
    /\ UNCHANGED <<wikilinks_sorted, ambiguous_matches, applied, tracker, updates,
                   pass, first_pass>>
    /\ UNCHANGED <<report, run_vars, par_vars>>
    /\ UNCHANGED highlight

\* persist with apply_changes set, and the program started again on the
\* files it wrote
PersistAndRunAgain ==
    /\ pc = "done"
    /\ pass = "first"
    /\ pass' = "second"
    /\ first_pass' = [files |-> markdown_files, applied |-> applied,
                      outcome |-> outcome]
    /\ markdown_files' =
           [i \in 1..Len(markdown_files) |->
               MarkdownFileInfo(markdown_files[i].path, markdown_files[i].aliases,
                                markdown_files[i].content, <<>>)]
    /\ wikilinks_sorted' = <<>>
    /\ input_files' = <<>>
    /\ ambiguous_matches' = <<>>
    /\ applied' = <<>>
    /\ report' = <<>>
    /\ pc' = "scan"
    /\ UNCHANGED <<tracker, updates>>
    /\ UNCHANGED <<run_vars, par_vars>>
    /\ UNCHANGED highlight

ScanNext ==
    \/ ScanFolders
    \/ FindAllBackPopulateMatches
    \/ HasMatches
    \/ IdentifyAndRemoveAmbiguousMatches
    \/ ApplyBackPopulateChanges
    \/ PersistAndRunAgain

ScanSpec == ScanInit /\ [][ScanNext]_vars

----------------------------------------------------------------------------
(* lib.rs: process_obsidian_repository, run twice on the same configuration  *)
(* file and the same stored documents                                        *)

\* Option<bool>, as the configuration file's frontmatter gives it
ApplyChangesValues == {"Some(true)", "Some(false)", "None"}

\* lib.rs line 48: the test that guards persist
should_persist_unless_false(cfg) == cfg # "Some(false)"

should_persist(cfg) == cfg = "Some(true)"

\* a reset that leaves the setting as it is
reset_apply_changes_kept(cfg) == cfg

\* lib.rs line 64: config.apply_changes = Some(false)
reset_apply_changes(cfg) == "Some(false)"

\* a document as it is stored: no match records
stored(file) == MarkdownFileInfo(file.path, file.aliases, file.content, <<>>)

\* a write to a stored file
Write(what, path) ==
    [what |-> what, path |-> path, pass |-> pass, during |-> pc,
     apply_changes |-> config]

S_config_md == <<99, 111, 110, 102, 105, 103, 46, 109, 100>>

RunContents == UNION {[1..n -> {L_mentions, L_table, L_link}] : n \in 0..MaxLines}

RunRepositories == {<<WillFile(content), OtherFile(content)>> : content \in RunContents}

\* write_back_populate_tables as a whole: the early return, the
\* classification and the application of what is left
write_back_populate_tables(files, wikilinks, key_orders, targets_vec) ==
    IF \A i \in 1..Len(files) : files[i].unambiguous = <<>>
    THEN [files |-> files, ambiguous |-> <<>>, applied |-> <<>>, report |-> <<>>]
    ELSE LET r == identify_and_remove_ambiguous_matches(
                      files, wikilinks, key_orders, targets_vec)
         IN  IF unambiguous_matches(r.files) # <<>>
             THEN [files |-> apply_back_populate_changes(r.files),
                   ambiguous |-> r.ambiguous,
                   applied |-> unambiguous_matches(r.files),
                   report |-> write_back_populate_table(unambiguous_matches(r.files))]
             ELSE [files |-> r.files, ambiguous |-> r.ambiguous, applied |-> <<>>,
                   report |-> <<>>]

RunInit ==
    /\ pc = "load"
    /\ config_file \in ApplyChangesValues
    /\ config = NoConfig
    /\ disk \in RunRepositories
    /\ writes = <<>>
    /\ outcome = "running"
    /\ pass = "first"
    /\ first_pass = NoFirstPass
    /\ wikilinks_sorted = <<>>
    /\ markdown_files = <<>>
    /\ input_files = <<>>
    /\ ambiguous_matches = <<>>
    /\ applied = <<>>
    /\ tracker = IdleTracker
    /\ updates = <<>>
    /\ tasks = <<>>
    /\ shared_wikilinks = <<>>
    /\ scan_result = NoResult
    /\ report = <<>>
    /\ highlight = NoHighlight

\* the operation returns Err through a `?`
ReturnErr ==
    /\ pc' = "exit"
    /\ outcome' = "Err"

\* lines 31-39: the configuration file is read and validated
LoadConfig ==
    /\ pc \in {"load", "reset_done"}
    /\ \/ /\ config' = config_file
          /\ pc' = "analysis"
          /\ outcome' = "running"
       \/ /\ ReturnErr
          /\ config' = config
    /\ UNCHANGED <<report, wikilinks_sorted, markdown_files, input_files, ambiguous_matches,
                   applied, tracker, updates, pass, first_pass, config_file, disk,
                   writes, scan_vars>>
    /\ UNCHANGED highlight

\* line 42, ObsidianRepository::new: the stored documents are scanned, the
\* names sorted and every line searched
Analysis ==
    /\ pc = "analysis"
    /\ \/ /\ wikilinks_sorted' \in sort_and_build_wikilinks_ac(all_wikilinks_of(disk))
          /\ markdown_files' =
                 process_files_for_back_populate_matches(disk, wikilinks_sorted')
          /\ input_files' = markdown_files'
          /\ pc' = "reports"
          /\ outcome' = outcome
       \/ /\ ReturnErr
          /\ UNCHANGED <<wikilinks_sorted, markdown_files, input_files>>
    /\ UNCHANGED <<report, ambiguous_matches, applied, tracker, updates, pass, first_pass,
                   run_vars, scan_vars>>
    /\ UNCHANGED highlight

\* line 45, write_reports, and the test of line 48
WriteReports ==
    /\ pc = "reports"
    /\ \/ /\ \E key_orders \in KeyOrders(markdown_files),
                targets_vec \in TargetsVecs(DisplayTextMap(wikilinks_sorted)) :
               LET r == write_back_populate_tables(
                            markdown_files, wikilinks_sorted, key_orders, targets_vec)
               IN  /\ markdown_files' = r.files
                   /\ ambiguous_matches' = r.ambiguous
                   /\ applied' = r.applied
                   /\ report' = r.report
          /\ IF should_persist(config)
             THEN pc' = "persist" /\ outcome' = outcome
             ELSE pc' = "exit" /\ outcome' = "Ok"
       \/ /\ ReturnErr
          /\ UNCHANGED <<markdown_files, ambiguous_matches, applied, report>>
    /\ UNCHANGED <<wikilinks_sorted, input_files, tracker, updates, pass, first_pass,
                   run_vars, scan_vars>>
    /\ UNCHANGED highlight

\* a persist whose failure is not passed on
persist_all_failure_dropped(written, total) == "Ok"

\* markdown_files.rs lines 115-118: Ok(()) when every file was written, the
\* Err of the first file that was not
persist_all(written, total) == IF written = total THEN "Ok" ELSE "Err"

\* line 49, ObsidianRepository::persist: the files are written one after
\* the other, and the first failure ends the operation
Persist ==
    /\ pc = "persist"
    /\ \E written \in 0..Len(markdown_files) :
         /\ disk' = [i \in 1..Len(disk) |->
                        IF i <= written THEN stored(markdown_files[i]) ELSE disk[i]]
         /\ writes' = writes \o
                [i \in 1..written |-> Write("document", markdown_files[i].path)]
         /\ IF persist_all(written, Len(markdown_files)) = "Ok"
            THEN pc' = "reset" /\ outcome' = outcome
            ELSE ReturnErr
    /\ UNCHANGED <<report, wikilinks_sorted, markdown_files, input_files, ambiguous_matches,
                   applied, tracker, updates, pass, first_pass, config, config_file,
                   scan_vars>>
    /\ UNCHANGED highlight

\* lines 56-81, reset_apply_changes: the setting is cleared in memory and
\* the configuration file is written
ResetApplyChanges ==
    /\ pc = "reset"
    /\ config' = reset_apply_changes(config)
    /\ pc' = "exit"
    /\ \/ /\ config_file' = config'
          /\ writes' = Append(writes, Write("config", S_config_md))
          /\ outcome' = "Ok"
       \/ /\ outcome' = "Err"
          /\ UNCHANGED <<config_file, writes>>
    /\ UNCHANGED <<report, wikilinks_sorted, markdown_files, input_files, ambiguous_matches,
                   applied, tracker, updates, pass, first_pass, disk, scan_vars>>
    /\ UNCHANGED highlight

\* the program is started again with the same configuration file
RunAgain ==
    /\ pc = "exit"
    /\ pass = "first"
    /\ pass' = "second"
    /\ first_pass' = [files |-> markdown_files, applied |-> applied,
                      outcome |-> outcome]
    /\ pc' = "load"
    /\ config' = NoConfig
    /\ outcome' = "running"
    /\ wikilinks_sorted' = <<>>
    /\ markdown_files' = <<>>
    /\ input_files' = <<>>
    /\ ambiguous_matches' = <<>>
    /\ applied' = <<>>
    /\ report' = <<>>
    /\ UNCHANGED <<tracker, updates, config_file, disk, writes, scan_vars>>
    /\ UNCHANGED highlight

\* config/config.rs, Config::reset_apply_changes on the Config that
\* from_obsidian_file has read, as test_reset_apply_changes calls it
ConfigResetApplyChanges ==
    /\ pc = "load"
    /\ config' = config_file
    /\ pc' = "reset_done"
    /\ IF config' = "Some(true)"
       THEN /\ config_file' = "Some(false)"
            /\ writes' = Append(writes, Write("config", S_config_md))
       ELSE UNCHANGED <<config_file, writes>>
    /\ UNCHANGED <<report, wikilinks_sorted, markdown_files, input_files, ambiguous_matches,
                   applied, tracker, updates, pass, first_pass, disk, outcome, scan_vars>>
    /\ UNCHANGED highlight

RunNext ==
    \/ LoadConfig
    \/ Analysis
    \/ WriteReports
    \/ Persist
    \/ ResetApplyChanges
    \/ RunAgain
    \/ ConfigResetApplyChanges

RunSpec == RunInit /\ [][RunNext]_vars

----------------------------------------------------------------------------
(* scan.rs: scan_markdown_files, one task per document on the worker pool,   *)
(* inside scan_folders, inside process_config (main.rs)                      *)

\* wikilink_types.rs line 48, derive(Hash, Eq, PartialEq): equality is that
\* of the three fields
wikilink_eq(a, b) ==
    /\ a.display_text = b.display_text
    /\ a.target = b.target
    /\ a.is_alias = b.is_alias

\* an insert that keeps an equal element it already holds
hash_set_insert_always(set, w) == Append(set, w)

\* HashSet::insert: the set is the sequence of the elements it holds
hash_set_insert(set, w) ==
    IF \E k \in 1..Len(set) : wikilink_eq(set[k], w) THEN set ELSE Append(set, w)

\* HashSet::extend
RECURSIVE hash_set_extend(_, _)
hash_set_extend(set, ws) ==
    IF ws = {} THEN set
    ELSE LET w == CHOOSE x \in ws : TRUE
         IN  hash_set_extend(hash_set_insert(set, w), ws \ {w})

\* scan_markdown_file on a document that can be read and parsed
scan_markdown_file(file) == [file_info |-> file, wikilinks |-> process_content(file)]

Task(state, result) == [state |-> state, result |-> result]

NoTaskResult == [file_info |-> <<>>, wikilinks |-> {}]

\* tomato.md with a line of text
TomatoFileWith(content) == MarkdownFileInfo(S_tomato \o S_md, <<S_tomatoes>>, content, <<>>)

\* three documents; a link may be written in more than one of them
ParRepositories ==
    {<<WillFile(c1), OtherFile(c2), TomatoFileWith(c3)>> :
        c1 \in {<<>>, <<L_link>>},
        c2 \in {<<L_link>>, <<L_tomato>>},
        c3 \in {<<>>, <<L_tomato>>}}

\* the documents that cannot be read or parsed
Unreadable == SUBSET (1..3)

ParInit ==
    /\ pc = "par_iter"
    /\ disk \in ParRepositories
    /\ \E unreadable \in Unreadable :
           tasks = [i \in 1..Len(disk) |->
                       Task(IF i \in unreadable THEN "unreadable" ELSE "todo",
                            NoTaskResult)]
    /\ markdown_files = <<>>
    /\ shared_wikilinks = <<>>
    /\ scan_result = NoResult
    /\ report = <<>>
    /\ outcome = "running"
    /\ wikilinks_sorted = <<>>
    /\ input_files = <<>>
    /\ ambiguous_matches = <<>>
    /\ applied = <<>>
    /\ tracker = IdleTracker
    /\ updates = <<>>
    /\ pass = "first"
    /\ first_pass = NoFirstPass
    /\ config = NoConfig
    /\ config_file = NoConfig
    /\ writes = <<>>
    /\ highlight = NoHighlight

Failed == {i \in DOMAIN tasks : tasks[i].state = "failed"}

\* a try_for_each that goes on after an Err
try_for_each_skipping_errors(failed) == {Result("Ok", <<>>, <<>>)}

\* line 187, try_for_each: what it can return when the tasks of `failed`
\* have returned Err: the Err of one of them, else Ok(())
try_for_each(failed) ==
    IF failed # {}
    THEN {Result("Err", <<>>, disk[i].path) : i \in failed}
    ELSE {Result("Ok", <<>>, <<>>)}

\* scan.rs line 188: a task computes scan_markdown_file; no lock is held
ScanMarkdownFile(i) ==
    /\ pc = "par_iter"
    /\ tasks[i].state \in {"todo", "unreadable"}
    /\ tasks' = [tasks EXCEPT ![i] =
                    IF tasks[i].state = "todo"
                    THEN Task("computed", scan_markdown_file(disk[i]))
                    ELSE Task("failed", NoTaskResult)]
    /\ UNCHANGED <<report, pc, wikilinks_sorted, markdown_files, input_files, ambiguous_matches,
                   applied, tracker, updates, pass, first_pass, run_vars,
                   shared_wikilinks, scan_result, outcome>>
    /\ UNCHANGED highlight

\* line 190: markdown_files.lock().unwrap().push(file_info)
PushFileInfo(i) ==
    /\ pc = "par_iter"
    /\ tasks[i].state = "computed"
    /\ markdown_files' = Append(markdown_files, tasks[i].result.file_info)
    /\ tasks' = [tasks EXCEPT ![i].state = "pushed"]
    /\ UNCHANGED <<report, pc, wikilinks_sorted, input_files, ambiguous_matches, applied,
                   tracker, updates, pass, first_pass, run_vars, shared_wikilinks,
                   scan_result, outcome>>
    /\ UNCHANGED highlight

\* lines 191-192: all_wikilinks.lock().unwrap().extend(wikilinks); Ok(())
ExtendAllWikilinks(i) ==
    /\ pc = "par_iter"
    /\ tasks[i].state = "pushed"
    /\ shared_wikilinks' = hash_set_extend(shared_wikilinks, tasks[i].result.wikilinks)
    /\ tasks' = [tasks EXCEPT ![i].state = "done"]
    /\ UNCHANGED <<report, pc, wikilinks_sorted, markdown_files, input_files,
                   ambiguous_matches, applied, tracker, updates, pass, first_pass,
                   run_vars, scan_result, outcome>>
    /\ UNCHANGED highlight

\* line 187, try_for_each: once a task has returned Err, a task that has
\* not started may never start
SkipAfterErr(i) ==
    /\ pc = "par_iter"
    /\ Failed # {}
    /\ tasks[i].state \in {"todo", "unreadable"}
    /\ tasks' = [tasks EXCEPT ![i].state = "skipped"]
    /\ UNCHANGED <<report, pc, wikilinks_sorted, markdown_files, input_files, ambiguous_matches,
                   applied, tracker, updates, pass, first_pass, run_vars,
                   shared_wikilinks, scan_result, outcome>>
    /\ UNCHANGED highlight

\* lines 199-211: try_for_each has come back; `?` returns the Err of a task,
\* else the two collections are taken out of their mutexes
ScanMarkdownFilesReturns ==
    /\ pc = "par_iter"
    /\ \A i \in DOMAIN tasks : tasks[i].state \in {"done", "failed", "skipped"}
    /\ \E r \in try_for_each(Failed) :
           scan_result' =
               IF r.status = "Err"
               THEN r
               ELSE Result("Ok", [markdown_files |-> markdown_files,
                                  all_wikilinks |-> shared_wikilinks], <<>>)
    /\ pc' = "scan_folders"
    /\ UNCHANGED <<report, wikilinks_sorted, markdown_files, input_files, ambiguous_matches,
                   applied, tracker, updates, pass, first_pass, run_vars, tasks,
                   shared_wikilinks, outcome>>
    /\ UNCHANGED highlight

\* scan_folders, lines 127-142: `?` on the Err, else the names are sorted
\* and the ObsidianRepositoryInfo returned
ScanFoldersReturns ==
    /\ pc = "scan_folders"
    /\ IF scan_result.status = "Err"
       THEN UNCHANGED <<scan_result, wikilinks_sorted>>
       ELSE /\ wikilinks_sorted' \in
                   sort_and_build_wikilinks_ac(SeqToSet(scan_result.value.all_wikilinks))
            /\ scan_result' =
                   Result("Ok", [markdown_files |-> scan_result.value.markdown_files,
                                 wikilinks_sorted |-> wikilinks_sorted'], <<>>)
    /\ pc' = "process_config"
    /\ UNCHANGED <<report, markdown_files, input_files, ambiguous_matches, applied, tracker,
                   updates, pass, first_pass, run_vars, tasks, shared_wikilinks,
                   outcome>>
    /\ UNCHANGED highlight

\* main.rs lines 55-58: let _ = scan_obsidian_folder(config, output); Ok(())
ProcessConfig ==
    /\ pc = "process_config"
    /\ outcome' = "Ok"
    /\ pc' = "main"
    /\ UNCHANGED <<report, wikilinks_sorted, markdown_files, input_files, ambiguous_matches,
                   applied, tracker, updates, pass, first_pass, run_vars, scan_vars>>
    /\ UNCHANGED highlight

\* main.rs lines 27-41: main returns what process_config returned
MainReturns ==
    /\ pc = "main"
    /\ pc' = "exit"
    /\ UNCHANGED <<report, wikilinks_sorted, markdown_files, input_files, ambiguous_matches,
                   applied, tracker, updates, pass, first_pass, run_vars, scan_vars,
                   outcome>>
    /\ UNCHANGED highlight

ParNext ==
    \/ \E i \in DOMAIN tasks : ScanMarkdownFile(i)
    \/ \E i \in DOMAIN tasks : PushFileInfo(i)
    \/ \E i \in DOMAIN tasks : ExtendAllWikilinks(i)
    \/ \E i \in DOMAIN tasks : SkipAfterErr(i)
    \/ ScanMarkdownFilesReturns
    \/ ScanFoldersReturns
    \/ ProcessConfig
    \/ MainReturns

ParSpec == ParInit /\ [][ParNext]_vars

----------------------------------------------------------------------------
(* scan.rs: sort_and_build_wikilinks_ac on a HashSet of names, iterated in   *)
(* any order                                                                 *)

\* the names the set is drawn from: two aliases with one display text, a
\* file with that display text, and names that differ by case or by length
SortWikilinks == TestWikilinks \cup {Wikilink(S_Ed, S_Ed, FALSE)}

\* the orders in which a HashSet of names can be iterated
IterationOrders == UNION {Perms(set) : set \in SUBSET SortWikilinks}

SortInit ==
    /\ pc = "sort"
    /\ shared_wikilinks \in IterationOrders
    /\ wikilinks_sorted = <<>>
    /\ markdown_files = <<>>
    /\ input_files = <<>>
    /\ ambiguous_matches = <<>>
    /\ applied = <<>>
    /\ tracker = IdleTracker
    /\ updates = <<>>
    /\ pass = "first"
    /\ first_pass = NoFirstPass
    /\ config = NoConfig
    /\ config_file = NoConfig
    /\ disk = <<>>
    /\ writes = <<>>
    /\ tasks = <<>>
    /\ scan_result = NoResult
    /\ report = <<>>
    /\ outcome = "running"
    /\ highlight = NoHighlight

\* lines 158-159: the set collected into a Vec, the Vec sorted
SortAndBuildWikilinksAc ==
    /\ pc = "sort"
    /\ wikilinks_sorted' \in sort_and_build_wikilinks_ac(SeqToSet(shared_wikilinks))
    /\ pc' = "sorted"
    /\ UNCHANGED <<markdown_files, input_files, ambiguous_matches, applied, tracker,
                   updates, pass, first_pass>>
    /\ UNCHANGED <<report, run_vars, par_vars>>
    /\ UNCHANGED highlight

SortNext == SortAndBuildWikilinksAc

SortSpec == SortInit /\ [][SortNext]_vars

----------------------------------------------------------------------------
(* markdown_files.rs: process_files_for_back_populate_matches, one task per  *)
(* document on the worker pool, then write_back_populate_tables              *)

\* three or four documents; "Will" is ambiguous when a document links to
\* William.md, "tomatoes" when tomatoes.md stands beside the alias of
\* tomato.md
ExtractRepositories ==
    {<<WillFile(c1), OtherFile(c2), TomatoFileWith(c3)>> \o more :
        c1 \in {<<L_mentions>>, <<L_link>>},
        c2 \in {<<L_mentions>>, <<L_tomatoes>>, <<L_tomatoes, L_mentions>>},
        c3 \in {<<>>, <<L_mentions>>},
        more \in {<<>>, <<TomatoesFile>>}}

ExtractInit ==
    /\ pc = "for_each"
    /\ markdown_files \in ExtractRepositories
    /\ wikilinks_sorted \in sort_and_build_wikilinks_ac(all_wikilinks_of(markdown_files))
    /\ tasks = [i \in 1..Len(markdown_files) |-> Task("todo", NoTaskResult)]
    /\ input_files = <<>>
    /\ ambiguous_matches = <<>>
    /\ applied = <<>>
    /\ tracker = IdleTracker
    /\ updates = <<>>
    /\ pass = "first"
    /\ first_pass = NoFirstPass
    /\ config = NoConfig
    /\ config_file = NoConfig
    /\ disk = <<>>
    /\ writes = <<>>
    /\ shared_wikilinks = <<>>
    /\ scan_result = NoResult
    /\ report = <<>>
    /\ outcome = "running"
    /\ highlight = NoHighlight

\* a for_each that comes back when one task has finished
for_each_returns_early(ts) == \E i \in DOMAIN ts : ts[i].state = "done"

\* par_iter_mut().for_each, lines 85-99: it returns when every task has
\* finished
for_each(ts) == \A i \in DOMAIN ts : ts[i].state = "done"

\* line 85: the pool starts the closure on one document
StartExtraction(i) ==
    /\ tasks[i].state = "todo"
    /\ tasks' = [tasks EXCEPT ![i].state = "running"]
    /\ UNCHANGED <<pc, wikilinks_sorted, markdown_files, input_files, ambiguous_matches,
                   applied, tracker, updates, pass, first_pass, report, run_vars,
                   shared_wikilinks, scan_result, outcome>>
    /\ UNCHANGED highlight

\* lines 94-98: the closure has filled the matches of its own document
FinishExtraction(i) ==
    /\ tasks[i].state = "running"
    /\ markdown_files' =
           [markdown_files EXCEPT ![i] =
               process_file_for_back_populate_matches(markdown_files[i], wikilinks_sorted)]
    /\ tasks' = [tasks EXCEPT ![i].state = "done"]
    /\ UNCHANGED <<pc, wikilinks_sorted, input_files, ambiguous_matches, applied,
                   tracker, updates, pass, first_pass, report, run_vars,
                   shared_wikilinks, scan_result, outcome>>
    /\ UNCHANGED highlight

\* for_each has returned; write_back_populate_tables is called next
ForEachReturns ==
    /\ pc = "for_each"
    /\ for_each(tasks)
    /\ input_files' = markdown_files
    /\ pc' = "start"
    /\ UNCHANGED <<wikilinks_sorted, markdown_files, ambiguous_matches, applied,
                   tracker, updates, pass, first_pass, report, run_vars, par_vars>>
    /\ UNCHANGED highlight

ExtractNext ==
    \/ \E i \in DOMAIN tasks : StartExtraction(i)
    \/ \E i \in DOMAIN tasks : FinishExtraction(i)
    \/ ForEachReturns
    \/ HasMatches
    \/ IdentifyAndRemoveAmbiguousMatches
    \/ ApplyBackPopulateChanges

ExtractSpec == ExtractInit /\ [][ExtractNext]_vars

----------------------------------------------------------------------------
(* The classifier called a second time on the repository it has left         *)

\* identify_and_remove_ambiguous_matches once more, with the same corpus
IdentifyAgain ==
    /\ pc \in {"apply", "done"}
    /\ pass = "first"
    /\ \E key_orders \in KeyOrders(markdown_files),
          targets_vec \in TargetsVecs(DisplayTextMap(wikilinks_sorted)) :
         LET r == identify_and_remove_ambiguous_matches(
                      markdown_files, wikilinks_sorted, key_orders, targets_vec)
         IN  /\ markdown_files' = r.files
             /\ ambiguous_matches' = r.ambiguous
    /\ first_pass' = [files |-> markdown_files, applied |-> ambiguous_matches,
                      outcome |-> outcome]
    /\ pass' = "second"
    /\ pc' = "again"
    /\ UNCHANGED <<wikilinks_sorted, input_files, applied, tracker, updates, report,
                   run_vars, par_vars, highlight>>

AgainNext ==
    \/ HasMatches
    \/ IdentifyAndRemoveAmbiguousMatches
    \/ IdentifyAgain

AgainSpec == Init /\ [][AgainNext]_vars

----------------------------------------------------------------------------
(* back_populate.rs: highlight_matches, called with a line, byte offsets and *)
(* the byte length of the text to mark                                       *)

\* number of offsets given in one call
MaxPositions == 3

\* "<span style=\"color: red;\">" and "</span>"
SPAN_OPEN ==
    <<60, 115, 112, 97, 110, 32, 115, 116, 121, 108, 101, 61, 34, 99, 111, 108, 111,
      114, 58, 32, 114, 101, 100, 59, 34, 62>>

SPAN_CLOSE == <<60, 47, 115, 112, 97, 110, 62>>

\* str::is_char_boundary: the start, the end, or a byte inside the text
\* that is not a UTF-8 continuation byte (0x80..0xBF)
is_char_boundary(text, index) ==
    \/ index = 0
    \/ index = Len(text)
    \/ index < Len(text) /\ text[index + 1] \notin 128..191

\* &text[from..to]
slice(text, from, to) == SubSeq(text, from + 1, to)

\* sort_unstable on the offsets
sort_unstable(positions) ==
    LET idx == 1..Len(positions)
        order == stable_sort(idx, {jk \in idx \X idx :
                                      positions[jk[1]] <= positions[jk[2]]})
    IN  [n \in 1..Len(order) |-> positions[order[n]]]

\* a boundary test that lets an end past the end of the text through
boundaries_valid_start_only(text, start, end) == is_char_boundary(text, start)

\* line 452: both ends of the match are character boundaries
boundaries_valid(text, start, end) ==
    is_char_boundary(text, start) /\ is_char_boundary(text, end)

\* lines 448-470, the loop over the sorted offsets from the n-th on; a
\* slice whose start is beyond its end, or whose end is beyond the text,
\* panics
RECURSIVE highlight_loop(_, _, _, _, _, _)
highlight_loop(text, sorted_positions, n, match_length, result, last_end) ==
    IF n > Len(sorted_positions)
    THEN [state |-> "returned", returned |-> result \o slice(text, last_end, Len(text))]
    ELSE LET start == sorted_positions[n]
             end == start + match_length
         IN  IF ~boundaries_valid(text, start, end)
             THEN [state |-> "returned", returned |-> text]
             ELSE IF last_end > start \/ end > Len(text)
             THEN [state |-> "panicked", returned |-> <<>>]
             ELSE highlight_loop(text, sorted_positions, n + 1, match_length,
                      result \o slice(text, last_end, start) \o SPAN_OPEN
                             \o slice(text, start, end) \o SPAN_CLOSE,
                      end)

\* highlight_matches, lines 441-475
highlight_matches(text, positions, match_length) ==
    highlight_loop(text, sort_unstable(positions), 1, match_length, <<>>, 0)

\* "kkxk", "k\u{e9}k" with its two-byte character, "ab"
HighlightTexts == {<<107, 107, 120, 107>>, <<107, 195, 169, 107>>, <<97, 98>>}

HighlightPositions == UNION {[1..n -> 0..5] : n \in 0..MaxPositions}

HighlightInit ==
    /\ pc = "highlight"
    /\ \E text \in HighlightTexts, positions \in HighlightPositions,
          match_length \in 1..3 :
           highlight = [text |-> text, positions |-> positions,
                        match_length |-> match_length,
                        state |-> "called", returned |-> <<>>]
    /\ wikilinks_sorted = <<>>
    /\ markdown_files = <<>>
    /\ input_files = <<>>
    /\ ambiguous_matches = <<>>
    /\ applied = <<>>
    /\ tracker = IdleTracker
    /\ updates = <<>>
    /\ pass = "first"
    /\ first_pass = NoFirstPass
    /\ config = NoConfig
    /\ config_file = NoConfig
    /\ disk = <<>>
    /\ writes = <<>>
    /\ tasks = <<>>
    /\ shared_wikilinks = <<>>
    /\ scan_result = NoResult
    /\ report = <<>>
    /\ outcome = "running"

\* the call runs to its end
HighlightMatches ==
    /\ pc = "highlight"
    /\ highlight.state = "called"
    /\ LET r == highlight_matches(highlight.text, highlight.positions,
                                  highlight.match_length)
       IN  highlight' = [highlight EXCEPT !.state = r.state, !.returned = r.returned]
    /\ pc' = "highlighted"
    /\ UNCHANGED <<wikilinks_sorted, markdown_files, input_files, ambiguous_matches,
                   applied, tracker, updates, pass, first_pass, report, run_vars,
                   par_vars>>

HighlightNext == HighlightMatches

HighlightSpec == HighlightInit /\ [][HighlightNext]_vars

----------------------------------------------------------------------------
(* Properties of the classifier *)

CorpusSet == SeqToSet(wikilinks_sorted)

\* the case-folded targets of the names whose case-folded display text is
\* the case-folded `text`: one element per distinct canonical target
ReachableTargets(text) ==
    {to_lowercase(w.target) :
        w \in {x \in CorpusSet : to_lowercase(x.display_text) = to_lowercase(text)}}

\* the canonical spelling of a case-folded target: the all-lowercase
\* spelling when a name of the corpus has it, else the first spelling in
\* wikilinks_sorted
CanonicalSpelling(lower_target) ==
    IF \E w \in CorpusSet : w.target = lower_target
    THEN lower_target
    ELSE wikilinks_sorted[MinOf({i \in 1..Len(wikilinks_sorted) :
             to_lowercase(wikilinks_sorted[i].target) = lower_target})].target

\* identify_and_remove_ambiguous_matches has returned
Classified == pc \in {"apply", "done"}

InputRecords(i) == SeqToSet(input_files[i].unambiguous)

Stays(i, m) == m \in SeqToSet(markdown_files[i].unambiguous)

InAmbiguousGroup(m) ==
    \E g \in 1..Len(ambiguous_matches) : m \in SeqToSet(ambiguous_matches[g].matches)

\* C1: once the classifier has returned, a record whose folded found_text
\* reaches exactly one canonical target is still in its document's
\* unambiguous list and in no group, and a record whose text reaches two or
\* more is in a group and no longer in the list; the right-hand side reads
\* only the set of names and the record's text, and the initial states range
\* over every order of the documents and of the records, so the
\* classification is the same for every order
C1_ClassifiedByTargetCount ==
    Classified =>
        \A i \in 1..Len(input_files) : \A m \in InputRecords(i) :
            LET n == Cardinality(ReachableTargets(m.found_text))
            IN  /\ n = 1 => (Stays(i, m) /\ ~InAmbiguousGroup(m))
                /\ n >= 2 => (~Stays(i, m) /\ InAmbiguousGroup(m))

\* a document with, in this order, a record that is moved out and a record
\* that stays
C1_Witness ==
    /\ Classified
    /\ \E i \in 1..Len(input_files) :
         /\ Len(input_files[i].unambiguous) = 2
         /\ InAmbiguousGroup(input_files[i].unambiguous[1])
         /\ Cardinality(ReachableTargets(input_files[i].unambiguous[2].found_text)) = 1
         /\ Stays(i, input_files[i].unambiguous[2])

\* C2: when apply_back_populate_changes is called, and in what it was
\* handed, no record's folded found_text reaches two or more canonical
\* targets
C2_NoAmbiguousRecordApplied ==
    /\ pc = "apply" =>
          \A i \in 1..Len(markdown_files) :
              \A m \in SeqToSet(markdown_files[i].unambiguous) :
                  Cardinality(ReachableTargets(m.found_text)) < 2
    /\ \A m \in SeqToSet(applied) : Cardinality(ReachableTargets(m.found_text)) < 2

\* the call is reached with one record moved out and another one to apply
C2_Witness ==
    /\ pc = "apply"
    /\ ambiguous_matches # <<>>
    /\ \E i \in 1..Len(markdown_files) : markdown_files[i].unambiguous # <<>>

\* two names of the corpus share a folded display text and point at
\* different spellings of one target, and every name with that display text
\* points at a spelling of that target
CaseVariantsOnly(text) ==
    /\ \E w1, w2 \in CorpusSet :
         /\ to_lowercase(w1.display_text) = to_lowercase(text)
         /\ to_lowercase(w2.display_text) = to_lowercase(text)
         /\ w1.target # w2.target
    /\ \A w1, w2 \in CorpusSet :
         (/\ to_lowercase(w1.display_text) = to_lowercase(text)
          /\ to_lowercase(w2.display_text) = to_lowercase(text))
         => to_lowercase(w1.target) = to_lowercase(w2.target)

\* C3: when the names sharing a folded display text point at case variants
\* of one target, the records with that text stay unambiguous and no group
\* is made for the text
C3_CaseVariantsAreOneTarget ==
    Classified =>
        \A i \in 1..Len(input_files) : \A m \in InputRecords(i) :
            CaseVariantsOnly(m.found_text) =>
                /\ Stays(i, m)
                /\ \A g \in 1..Len(ambiguous_matches) :
                       ambiguous_matches[g].display_text # to_lowercase(m.found_text)

\* a record whose text is shared by two spellings of one target was classified
C3_Witness ==
    /\ Classified
    /\ \E i \in 1..Len(input_files) : \E m \in InputRecords(i) :
         CaseVariantsOnly(m.found_text) /\ Stays(i, m)

\* C4: every returned group has at least two targets, none twice, and they
\* are the canonical spellings of the targets its display text reaches
C4_GroupTargetsAreTheReachableTargets ==
    Classified =>
        \A g \in 1..Len(ambiguous_matches) :
            LET group == ambiguous_matches[g]
            IN  /\ Len(group.targets) >= 2
                /\ Cardinality(SeqToSet(group.targets)) = Len(group.targets)
                /\ SeqToSet(group.targets) =
                       {CanonicalSpelling(t) : t \in ReachableTargets(group.display_text)}

\* a group one of whose targets is spelled in the corpus in another way too
C4_Witness ==
    /\ Classified
    /\ \E g \in 1..Len(ambiguous_matches) :
         \E t \in SeqToSet(ambiguous_matches[g].targets) : \E w \in CorpusSet :
             w.target # t /\ to_lowercase(w.target) = to_lowercase(t)

----------------------------------------------------------------------------
(* Properties of the extractor and of the rewrite *)

\* the records the extractor made for file i in this run
ScanRecords(i) == SeqToSet(input_files[i].unambiguous)

\* the name a record's text resolved to: the earliest name of the sorted
\* corpus whose display text is the found text, ignoring case
ResolvedName(m) ==
    wikilinks_sorted[MinOf({k \in 1..Len(wikilinks_sorted) :
        to_lowercase(wikilinks_sorted[k].display_text) = to_lowercase(m.found_text)})]

\* "[[target]]" and "[[target|text]]", written out
BareLink(target) == <<91, 91>> \o target \o <<93, 93>>
AliasedLink(target, text) == <<91, 91>> \o target \o <<124>> \o text \o <<93, 93>>
EscapedAliasedLink(target, text) ==
    <<91, 91>> \o target \o <<92, 124>> \o text \o <<93, 93>>

\* line n of file i is read by the extractor: it is not in a fenced block
LineIsRead(i, n) ==
    LET fences == {k \in 1..n : try_into(Line(input_files[i].content[k])) = "TripleBacktick"}
    IN  fences = {}

RecordsOnLine(i, n) == {m \in ScanRecords(i) : m.line_number = n}

TomatoesAlias == Wikilink(S_tomatoes, S_tomato, TRUE)
TomatoesTitle == Wikilink(S_tomatoes, S_tomatoes, FALSE)

\* C5: an alias name stands before the non-alias name with the same display
\* text in the sorted corpus, a mention with exactly that text gets the link
\* to an alias's target, and with the names tomatoes -> tomato (alias) and
\* tomatoes -> tomatoes the line "x tomatoes" gives exactly one record, whose
\* replacement is [[tomato|tomatoes]]
C5_AliasPrecedence ==
    /\ \A j, k \in 1..Len(wikilinks_sorted) :
           (/\ wikilinks_sorted[j].display_text = wikilinks_sorted[k].display_text
            /\ wikilinks_sorted[j].is_alias
            /\ ~wikilinks_sorted[k].is_alias) => j < k
    /\ \A i \in 1..Len(input_files) : \A m \in ScanRecords(i) :
           (\E a, t \in CorpusSet :
               /\ a.is_alias /\ ~t.is_alias
               /\ a.display_text = m.found_text /\ t.display_text = m.found_text)
           => /\ ResolvedName(m).is_alias
              /\ ResolvedName(m).display_text = m.found_text
    /\ \A i \in 1..Len(input_files) : \A n \in 1..Len(input_files[i].content) :
           (/\ input_files[i].content[n] = L_tomatoes
            /\ LineIsRead(i, n)
            /\ TomatoesAlias \in CorpusSet
            /\ TomatoesTitle \in CorpusSet)
           => /\ Cardinality(RecordsOnLine(i, n)) = 1
              /\ \A m \in RecordsOnLine(i, n) :
                     /\ m.found_text = S_tomatoes
                     /\ m.replacement = AliasedLink(S_tomato, S_tomatoes)

\* both names are in the corpus and "x tomatoes" was searched
C5_Witness ==
    /\ TomatoesAlias \in CorpusSet
    /\ TomatoesTitle \in CorpusSet
    /\ \E i \in 1..Len(input_files) : \E m \in ScanRecords(i) :
           m.line_text = L_tomatoes /\ m.replacement = AliasedLink(S_tomato, S_tomatoes)

\* the separator a stored replacement has: escaped in a table row
ExpectedAliasedLink(m, target) ==
    IF m.in_markdown_table
    THEN EscapedAliasedLink(target, m.found_text)
    ELSE AliasedLink(target, m.found_text)

WillPath == S_Will \o S_md
OtherPath == S_Other \o S_md

\* C8: no record of a document has that document's own name as its found
\* text, in any letter case, and every record is filed under the document it
\* was found in; so "Will will" gives no record in Will.md, and in Other.md
\* exactly one record for its "Will"
C8_NoSelfReference ==
    \A i \in 1..Len(input_files) :
        /\ \A m \in ScanRecords(i) :
               /\ to_lowercase(m.found_text)
                      # to_lowercase(strip_md_extension(input_files[i].path))
               /\ m.relative_path = input_files[i].path
        /\ \A n \in 1..Len(input_files[i].content) :
               (input_files[i].content[n] = L_mentions /\ LineIsRead(i, n))
               => /\ input_files[i].path = WillPath => RecordsOnLine(i, n) = {}
                  /\ input_files[i].path = OtherPath =>
                         Cardinality({m \in RecordsOnLine(i, n) :
                                         m.found_text = S_Will /\ m.position = 0}) = 1

\* "Will will" was searched in Will.md and in Other.md, with a link in the
\* corpus that gives "Will" another target than Will.md
C8_Witness ==
    /\ pc = "start"
    /\ \E a \in CorpusSet : a.display_text = S_Will /\ a.target = S_William_md
    /\ \E i, j \in 1..Len(input_files) :
         /\ input_files[i].path = WillPath
         /\ input_files[j].path = OtherPath
         /\ \E n \in 1..Len(input_files[i].content) :
                /\ input_files[i].content[n] = L_mentions
                /\ RecordsOnLine(i, n) = {}
                /\ RecordsOnLine(j, n) # {}

\* sum of the growth of the replacements in S
RECURSIVE Growth(_)
Growth(S) ==
    IF S = {} THEN 0
    ELSE LET m == CHOOSE x \in S : TRUE
         IN  Len(m.replacement) - Len(m.found_text) + Growth(S \ {m})

\* where the replacement of an applied record of the first run starts in
\* the rewritten line
RewrittenPosition(m) ==
    m.position + Growth({x \in SeqToSet(first_pass.applied) :
                            /\ x.relative_path = m.relative_path
                            /\ x.line_number = m.line_number
                            /\ x.position < m.position})

\* C10: in the second run every replacement the first run applied stands in
\* the text as a [[...]] link, no record of the second scan starts inside
\* it, and the second run leaves every document's content as the first run
\* wrote it
C10_RewriteIsIdempotent ==
    pass = "second" =>
        /\ \A i \in 1..Len(markdown_files) :
               markdown_files[i].content = first_pass.files[i].content
        /\ \A i \in 1..Len(input_files) : \A m \in SeqToSet(first_pass.applied) :
               m.relative_path = input_files[i].path =>
                   LET at == RewrittenPosition(m)
                       line == input_files[i].content[m.line_number]
                   IN  /\ SubSeq(line, at + 1, at + Len(m.replacement)) = m.replacement
                       /\ SubSeq(m.replacement, 1, 2) = <<91, 91>>
                       /\ \A r \in ScanRecords(i) :
                              ~(/\ r.line_number = m.line_number
                                /\ at <= r.position
                                /\ r.position < at + Len(m.replacement))

\* the second run is over; the first one rewrote two mentions of one line
\* and left an ambiguous one for the second to find again
C10_Witness ==
    /\ pass = "second"
    /\ pc = "done"
    /\ \E m1, m2 \in SeqToSet(first_pass.applied) :
           /\ m1.relative_path = m2.relative_path
           /\ m1.line_number = m2.line_number
           /\ m1.position < m2.position
    /\ \E i \in 1..Len(input_files) : ScanRecords(i) # {}

----------------------------------------------------------------------------
(* Properties of the code-fence tracker *)

\* the tracker was given n contents and the last one was (not) a fence line
LastUpdateWasFence == updates # <<>> /\ try_into(updates[Len(updates)]) = "TripleBacktick"

\* C9: a CodeBlockExcluder starts not skipping; an opening fence makes it
\* skip; while it skips, a line leaves it skipping unless that line is a
\* non-fence line given right after a closing fence, which is also the only
\* way it comes to not skip again
C9_FenceExclusion ==
    [][tracker.kind = "TripleBacktick" =>
        /\ (updates = <<>> => ~should_skip(tracker))
        /\ (~should_skip(tracker) /\ updates' # updates /\ LastUpdateWasFence'
               => should_skip(tracker'))
        /\ (should_skip(tracker) /\ tracker.location = "Inside" /\ updates' # updates
               => should_skip(tracker'))
        /\ (tracker.location = "OnClosingDelimiter" /\ updates' # updates
               /\ LastUpdateWasFence'
               => should_skip(tracker'))
        /\ (should_skip(tracker) /\ ~should_skip(tracker')
               => tracker.location = "OnClosingDelimiter" /\ ~LastUpdateWasFence')
        /\ (tracker.location = "Inside" /\ tracker'.location = "OnClosingDelimiter"
               => LastUpdateWasFence')]_vars

\* a block was closed and the very next line opened another one
C9_Witness ==
    /\ tracker.kind = "TripleBacktick"
    /\ Len(updates) >= 3
    /\ try_into(updates[Len(updates)]) = "TripleBacktick"
    /\ try_into(updates[Len(updates) - 1]) = "TripleBacktick"
    /\ try_into(updates[Len(updates) - 2]) = "Err"
    /\ tracker.location = "Inside"

\* the content is the delimiter the tracker tracks: three backticks at the
\* start of a line for a CodeBlockExcluder, a backtick for an
\* InlineCodeExcluder
IsTracked(content) == try_into(content) = tracker.kind

LastContent == updates[Len(updates)]

RECURSIVE TrackerAfter(_)
TrackerAfter(n) ==
    IF n = 0 THEN new_with_delimiter(tracker.kind)
    ELSE update(TrackerAfter(n - 1), updates[n])

\* C18: the tracked delimiter received on OnClosingDelimiter moves the
\* tracker to Inside; so when a closing delimiter is followed at once by an
\* opening one, should_skip() holds after the first, after the second, and
\* the tracker is Inside the next block.
C18_BackToBackFences ==
    /\ [][(updates' # updates /\ tracker.location = "OnClosingDelimiter"
              /\ IsTracked(LastContent'))
             => tracker'.location = "Inside"]_vars
    /\ [](/\ tracker = TrackerAfter(Len(updates))
          /\ \A n \in 1..(Len(updates) - 1) :
                (TrackerAfter(n).location = "OnClosingDelimiter"
                    /\ IsTracked(updates[n + 1]))
                => /\ should_skip(TrackerAfter(n))
                   /\ should_skip(TrackerAfter(n + 1))
                   /\ TrackerAfter(n + 1).location = "Inside")

\* a tracker closed a block and opened the next with the very next content
C18_Witness ==
    /\ Len(updates) >= 3
    /\ TrackerAfter(Len(updates) - 1).location = "OnClosingDelimiter"
    /\ IsTracked(LastContent)
    /\ tracker.location = "Inside"

\* a stands before b: longer display text first, then the lesser display
\* text, then the alias, then the lesser target
StandsBefore(a, b) ==
    \/ Len(a.display_text) > Len(b.display_text)
    \/ /\ Len(a.display_text) = Len(b.display_text)
       /\ StrCmp(a.display_text, b.display_text) = "Less"
    \/ /\ a.display_text = b.display_text
       /\ a.is_alias /\ ~b.is_alias
    \/ /\ a.display_text = b.display_text
       /\ a.is_alias = b.is_alias
       /\ StrCmp(a.target, b.target) = "Less"

\* C19: the sorted list holds the names of the set, each once, by display
\* text length descending, then display text, then alias before non-alias,
\* then target; compare_wikilinks is Equal only for one and the same triple;
\* so the set has one sorted list, whatever the order it was iterated in.
C19_SortedListDeterminedBySet ==
    pc = "sorted" =>
        /\ Len(wikilinks_sorted) = Len(shared_wikilinks)
        /\ SeqToSet(wikilinks_sorted) = SeqToSet(shared_wikilinks)
        /\ \A j, k \in 1..Len(wikilinks_sorted) :
               j < k => StandsBefore(wikilinks_sorted[j], wikilinks_sorted[k])
        /\ \A a, b \in SeqToSet(shared_wikilinks) :
               compare_wikilinks(a, b) = "Equal" <=> a = b
        /\ sort_and_build_wikilinks_ac(SeqToSet(shared_wikilinks)) = {wikilinks_sorted}

\* the six names were iterated in an order that is not the sorted one, and
\* the aliases of "Ed" stand before the file "Ed", by target
C19_Witness ==
    /\ pc = "sorted"
    /\ SeqToSet(shared_wikilinks) = SortWikilinks
    /\ shared_wikilinks # wikilinks_sorted
    /\ wikilinks_sorted[1] = Wikilink(S_AWS, S_AWS, FALSE)
    /\ SubSeq(wikilinks_sorted, 3, 5) =
           <<Wikilink(S_Ed, S_Ed_B, TRUE), Wikilink(S_Ed, S_Ed_S, TRUE),
             Wikilink(S_Ed, S_Ed, FALSE)>>

----------------------------------------------------------------------------
(* Properties of the extraction tasks and the classification *)

ExtractionComplete == \A i \in DOMAIN tasks : tasks[i].state = "done"

\* C21: identify_and_remove_ambiguous_matches starts only after the
\* extraction task of every document has completed, with the matches of
\* every document in place; a step of the classification is a step of no
\* task, and no task starts, runs or adds matches once for_each has
\* returned.
C21_ClassificationAfterEveryExtraction ==
    /\ [](pc # "for_each" => ExtractionComplete)
    /\ [](pc \in {"start", "identify"} =>
             markdown_files =
                 process_files_for_back_populate_matches(markdown_files, wikilinks_sorted))
    /\ [][(pc = "identify" /\ pc' # pc) =>
             (ExtractionComplete /\ tasks' = tasks)]_vars
    /\ [][tasks' # tasks =>
             (pc = "for_each" /\ pc' = pc /\ ambiguous_matches' = ambiguous_matches)]_vars

\* the extraction tasks have run and the classification has taken
\* ambiguous records out of more than one document
C21_Witness ==
    /\ pc \in {"apply", "done"}
    /\ Len(tasks) >= 3
    /\ ExtractionComplete
    /\ \E j, k \in 1..Len(ambiguous_matches) :
           \E m \in SeqToSet(ambiguous_matches[j].matches),
              n \in SeqToSet(ambiguous_matches[k].matches) :
                  m.relative_path # n.relative_path

----------------------------------------------------------------------------
(* Properties of a run *)

DocumentWrites == {k \in DOMAIN writes : writes[k].what = "document"}

\* the analysis phase has returned: the names are those of the stored
\* documents and every stored document has been searched
AnalysisReturned ==
    /\ wikilinks_sorted \in sort_and_build_wikilinks_ac(all_wikilinks_of(disk))
    /\ input_files = process_files_for_back_populate_matches(disk, wikilinks_sorted)

\* write_reports has returned: what the classifier left has been applied
WriteReportsReturned ==
    /\ Len(markdown_files) = Len(input_files)
    /\ applied = unambiguous_matches(markdown_files)
    /\ \A i \in 1..Len(markdown_files) :
           markdown_files[i].content =
               apply_to_file([input_files[i] EXCEPT
                                 !.unambiguous = markdown_files[i].unambiguous]).content

\* C11: a stored document is written only by persist, only in a run whose
\* apply_changes is Some(true) and at most once in a run; persist starts
\* only when the analysis phase and write_reports have both returned; the
\* stored documents do not change in any other step.
C11_WritesOnlyInFinalPhase ==
    /\ [](/\ \A k \in DocumentWrites :
                /\ writes[k].during = "persist"
                /\ writes[k].apply_changes = "Some(true)"
          /\ \A j, k \in DocumentWrites :
                (j # k /\ writes[j].pass = writes[k].pass)
                    => writes[j].path # writes[k].path
          /\ pc = "persist" =>
                /\ config = "Some(true)"
                /\ AnalysisReturned
                /\ WriteReportsReturned
                /\ \A k \in DocumentWrites : writes[k].pass # pass)
    /\ [][disk' # disk => (pc = "persist" /\ config = "Some(true)")]_vars

\* persist has written both documents of a run whose analysis found
\* something to rewrite
C11_Witness ==
    /\ pc = "reset"
    /\ pass = "first"
    /\ Cardinality(DocumentWrites) = 2
    /\ \E i \in 1..Len(disk) : disk[i].content # input_files[i].content

\* the run `p` wrote a document
PersistedIn(p) == \E k \in DocumentWrites : writes[k].pass = p

----------------------------------------------------------------------------
(* Properties of the parallel scan *)

FailedPaths == {disk[i].path : i \in Failed}

\* scan_markdown_files, then scan_folders, have returned the Err of a
\* document that failed, and no ObsidianRepositoryInfo
ReturnedOriginatingErr ==
    /\ scan_result.status = "Err"
    /\ scan_result.err \in FailedPaths
    /\ scan_result.value = <<>>
    /\ wikilinks_sorted = <<>>

\* C12 as stated: when a document fails, scan_markdown_files and
\* scan_folders return its error, no ObsidianRepositoryInfo is produced, and
\* the run ends in an error outcome.
C12_AsStated ==
    Failed # {} =>
        /\ pc \in {"scan_folders", "process_config", "main", "exit"}
               => ReturnedOriginatingErr
        /\ pc \in {"main", "exit"} => outcome = "Err"

\* C12, as the code runs: when a document fails, scan_markdown_files and
\* scan_folders return its error and no ObsidianRepositoryInfo is
\* produced, but process_config drops that Result and the run ends Ok.
C12_ErrReturnedThenDropped ==
    Failed # {} =>
        /\ pc \in {"scan_folders", "process_config", "main", "exit"}
               => ReturnedOriginatingErr
        /\ pc \in {"main", "exit"} => outcome = "Ok"

\* the run has ended; one document failed after another had been collected
C12_Witness ==
    /\ pc = "exit"
    /\ Failed # {}
    /\ markdown_files # <<>>

\* the tasks that have computed what their document contributes
Computed == {i \in DOMAIN tasks : tasks[i].state \in {"computed", "pushed", "done"}}

\* the document's own identity: its file name without ".md"
OwnIdentity(i) == strip_md_extension(disk[i].path)

DeclaredAliases(i) == SeqToSet(disk[i].aliases)

\* the link is written in a line of the document: "[[target]]" for a
\* non-alias entry, "[[target|display_text]]" for an alias entry
WrittenInContent(i, w) ==
    LET text == IF w.is_alias
                THEN <<91, 91>> \o w.target \o <<124>> \o w.display_text \o <<93, 93>>
                ELSE <<91, 91>> \o w.target \o <<93, 93>>
    IN  \E n \in 1..Len(disk[i].content) : find_from(disk[i].content[n], 1, text) # 0

\* C13 as stated: every alias entry a document contributes has the
\* document's own identity as target, and its only non-alias entry is the
\* one for its own title.
C13_AsStated ==
    \A i \in Computed : \A w \in tasks[i].result.wikilinks :
        IF w.is_alias
        THEN w.target = OwnIdentity(i)
        ELSE w.display_text = OwnIdentity(i) /\ w.target = OwnIdentity(i)

\* C13, corrected: a document contributes the non-alias entry of its own
\* title and one alias entry, with its own identity as target, per declared
\* alias; every other entry it contributes is a link written in its content,
\* with the target that link names.
C13_OwnEntriesAndContentLinks ==
    \A i \in Computed :
        LET ws == tasks[i].result.wikilinks
        IN  /\ Wikilink(OwnIdentity(i), OwnIdentity(i), FALSE) \in ws
            /\ \A a \in DeclaredAliases(i) : Wikilink(a, OwnIdentity(i), TRUE) \in ws
            /\ \A w \in ws :
                   \/ w = Wikilink(OwnIdentity(i), OwnIdentity(i), FALSE)
                   \/ /\ w.is_alias
                      /\ w.target = OwnIdentity(i)
                      /\ w.display_text \in DeclaredAliases(i)
                   \/ WrittenInContent(i, w)

\* tomato.md, which declares an alias and holds a link, has been scanned,
\* and so has a document whose content links to another document
C13_Witness ==
    \E i, j \in Computed :
        /\ DeclaredAliases(i) # {}
        /\ \E w \in tasks[i].result.wikilinks : w.is_alias /\ w.target = OwnIdentity(i)
        /\ \E w \in tasks[j].result.wikilinks : w.is_alias /\ w.target # OwnIdentity(j)

\* scan_markdown_files has returned Ok
ScanSucceeded == pc # "par_iter" /\ scan_result.status = "Ok"

\* the documents whose names hold the name w
Contributors(w) == {i \in 1..Len(disk) : w \in process_content(disk[i])}

\* C20: whatever the order in which the tasks ran, a scan that succeeds
\* returns one MarkdownFileInfo per input path and a name set that is the
\* union of the names of all documents, each triple held once; a task
\* computes its result without touching the shared collections, and a step
\* that appends changes one of them only.
C20_EveryInterleavingSameResult ==
    /\ [](ScanSucceeded =>
            /\ Len(markdown_files) = Len(disk)
            /\ \A i \in 1..Len(disk) :
                   Cardinality({k \in 1..Len(markdown_files) :
                                   markdown_files[k].path = disk[i].path}) = 1
            /\ SeqToSet(shared_wikilinks) = all_wikilinks_of(disk)
            /\ \A j, k \in 1..Len(shared_wikilinks) :
                   wikilink_eq(shared_wikilinks[j], shared_wikilinks[k]) => j = k
            /\ pc = "scan_folders" =>
                   /\ scan_result.value.markdown_files = markdown_files
                   /\ scan_result.value.all_wikilinks = shared_wikilinks)
    /\ [][/\ (\E i \in DOMAIN tasks :
                 tasks[i].state \in {"todo", "unreadable"} /\ tasks'[i] # tasks[i])
              => UNCHANGED <<markdown_files, shared_wikilinks>>
          /\ markdown_files' = markdown_files \/ shared_wikilinks' = shared_wikilinks]_vars

\* the scan succeeded although a later document was collected before the
\* first one and one name was contributed by two documents
C20_Witness ==
    /\ ScanSucceeded
    /\ pc = "scan_folders"
    /\ markdown_files[1].path # disk[1].path
    /\ \E w \in SeqToSet(shared_wikilinks) : Cardinality(Contributors(w)) >= 2

----------------------------------------------------------------------------
(* Properties of the report *)

AppliedRecords == SeqToSet(applied)

\* a character of `chars` stands in the text with no backslash before it
HasUnescaped(text, chars) ==
    \E k \in 1..Len(text) : text[k] \in chars /\ (k = 1 \/ text[k - 1] # 92)

\* the text with the backslash of every "\|", "\[" and "\]" taken out
RECURSIVE Unescape(_)
Unescape(text) ==
    IF text = <<>> THEN <<>>
    ELSE IF Len(text) >= 2 /\ Head(text) = 92 /\ text[2] \in {91, 93, 124}
    THEN <<text[2]>> \o Unescape(SubSeq(text, 3, Len(text)))
    ELSE <<Head(text)>> \o Unescape(Tail(text))

\* the link syntax of a record: the link to the resolved target showing
\* the found text
PlainLink(m) == to_aliased_wikilink(ResolvedName(m).target, m.found_text)

\* the rows of the report for the line of a record
RowsOf(m) ==
    LET tables == {t \in 1..Len(report) : report[t].found = to_lowercase(m.found_text)}
    IN  {row \in UNION {SeqToSet(report[t].rows) : t \in tables} :
            /\ row.file = to_wikilink(file_stem(m.relative_path))
            /\ row.line = m.line_number + m.frontmatter_line_count}

\* where the replacement of an applied record starts in the rewritten line
AppliedPosition(m) ==
    m.position + Growth({x \in AppliedRecords :
                            /\ x.relative_path = m.relative_path
                            /\ x.line_number = m.line_number
                            /\ x.position < m.position})

\* the text that stands in the document where the record was applied
AppliedText(m) ==
    LET i == CHOOSE i \in 1..Len(markdown_files) :
                 markdown_files[i].path = m.relative_path
        line == markdown_files[i].content[m.line_number]
    IN  SubSeq(line, AppliedPosition(m) + 1, AppliedPosition(m) + Len(m.replacement))

TableMentions == {m \in AppliedRecords : m.in_markdown_table}

\* no pipe and no bracket of the two report columns is left unescaped
EscapedInReport(m) ==
    /\ RowsOf(m) # {}
    /\ \A row \in RowsOf(m) :
           /\ ~HasUnescaped(row.replacement, {124})
           /\ ~HasUnescaped(row.source_text, {91, 93, 124})
           /\ Unescape(row.source_text) \in
                  {PlainLink(x) : x \in {x \in AppliedRecords :
                       /\ x.relative_path = m.relative_path
                       /\ to_lowercase(x.found_text) = to_lowercase(m.found_text)}}

----------------------------------------------------------------------------
(* Properties of the classifier: texts the corpus does not hold *)

\* the records of a list whose case-folded found text is `key`, in order
WithText(records, key) ==
    LET Same(m) == to_lowercase(m.found_text) = key
    IN  SelectSeq(records, Same)

\* no name of the corpus has the record's text as display text, ignoring
\* case: the text is absent from the display-text map
Unclassified(m) == ReachableTargets(m.found_text) = {}

\* C15: once the classifier has returned, the records of a document whose
\* case-folded found_text is the display text of no name are in the
\* document's unambiguous list, the same records in the same order as
\* before, and no ambiguous group has that text or holds such a record.
C15_UnclassifiedPutBack ==
    Classified =>
        \A i \in 1..Len(input_files) : \A m \in InputRecords(i) :
            Unclassified(m) =>
                /\ WithText(markdown_files[i].unambiguous, to_lowercase(m.found_text))
                       = WithText(input_files[i].unambiguous, to_lowercase(m.found_text))
                /\ ~InAmbiguousGroup(m)
                /\ \A g \in 1..Len(ambiguous_matches) :
                       ambiguous_matches[g].display_text # to_lowercase(m.found_text)

\* a document had a record of a text the corpus does not hold next to a
\* record that was moved to an ambiguous group
C15_Witness ==
    /\ Classified
    /\ \E i \in 1..Len(input_files) :
         /\ \E m \in InputRecords(i) : Unclassified(m) /\ Stays(i, m)
         /\ \E m \in InputRecords(i) : InAmbiguousGroup(m)

----------------------------------------------------------------------------
(* Properties of the consolidated matches *)

\* the case-folded found texts of the applied records: one table each
AppliedKeys == {to_lowercase(m.found_text) : m \in AppliedRecords}

\* the matches handed to consolidate_matches for the table of `key`
TableInput(key) == sorted_matches(applied, key)

\* the line entries of a consolidation, each with the path of its file
LineEntries(consolidated) ==
    {<<e, p>> \in (1..Len(consolidated)) \X (1..MaxLines) :
        p <= Len(consolidated[e].line_info)}

\* the input matches on one line of one document
OnLine(matches, path, line_number) ==
    {k \in 1..Len(matches) : /\ matches[k].relative_path = path
                             /\ matches[k].line_number = line_number}

\* C22: for each (document path, line number) among its input matches
\* consolidate_matches gives exactly one line entry; the offsets of that
\* entry are the offsets of all input matches on the line, as many as there
\* are matches; the line entries of one document ascend by line number.
C22_OneEntryPerDocumentLine ==
    \A key \in AppliedKeys :
        LET matches == TableInput(key)
            consolidated == consolidate_matches(matches)
            entries == LineEntries(consolidated)
            line(ep) == consolidated[ep[1]].line_info[ep[2]]
            path(ep) == consolidated[ep[1]].file_path
        IN  /\ \A k \in 1..Len(matches) :
                   LET here == {ep \in entries :
                                   /\ path(ep) = matches[k].relative_path
                                   /\ line(ep).line_number =
                                          matches[k].line_number
                                          + matches[k].frontmatter_line_count}
                       same == OnLine(matches, matches[k].relative_path,
                                      matches[k].line_number)
                   IN  /\ Cardinality(here) = 1
                       /\ \A ep \in here :
                              /\ Len(line(ep).positions) = Cardinality(same)
                              /\ SeqToSet(line(ep).positions) =
                                     {matches[j].position : j \in same}
            /\ \A ep \in entries :
                   \E k \in 1..Len(matches) :
                       /\ path(ep) = matches[k].relative_path
                       /\ line(ep).line_number =
                              matches[k].line_number + matches[k].frontmatter_line_count
            /\ \A e \in 1..Len(consolidated) :
                   \A p, q \in 1..Len(consolidated[e].line_info) :
                       p < q => consolidated[e].line_info[p].line_number
                                    < consolidated[e].line_info[q].line_number

\* one document has two matches of one text on one line, and matches of
\* that text on two lines
C22_Witness ==
    \E key \in AppliedKeys :
        \E e \in 1..Len(consolidate_matches(TableInput(key))) :
            LET line_info == consolidate_matches(TableInput(key))[e].line_info
            IN  /\ Len(line_info) >= 2
                /\ Len(line_info[1].positions) >= 2

----------------------------------------------------------------------------
(* Properties of the order of the rows *)

\* the file stem a row shows between "[[" and "]]"
RowStem(row) == SubSeq(row.file, 3, Len(row.file) - 2)

\* the rows of every table are in the order `before` of their file stems,
\* the rows of one document by line number
RowsOrderedBy(before(_, _)) ==
    \A t \in 1..Len(report) : \A j, k \in 1..Len(report[t].rows) :
        j < k =>
            LET a == report[t].rows[j]
                b == report[t].rows[k]
            IN  \/ before(RowStem(a), RowStem(b))
                \/ RowStem(a) = RowStem(b) /\ a.line < b.line

IgnoringCase(a, b) == StrCmp(to_lowercase(a), to_lowercase(b)) = "Less"

ByBytes(a, b) == StrCmp(a, b) = "Less"

\* C23 as stated: in every table the rows are ordered by file stem
\* compared case-insensitively, and within one document by line number.
C23_AsStated == RowsOrderedBy(IgnoringCase)

\* C23, as the code runs: consolidate_matches sorts its entries again, by
\* the file stem as it is written, so the rows of every table are ordered
\* by file stem compared byte by byte, and within one document by line
\* number.
C23_RowsByStemAsWritten == RowsOrderedBy(ByBytes)

\* a table lists B.md before a.md
C23_Witness ==
    \E t \in 1..Len(report) : \E j, k \in 1..Len(report[t].rows) :
        /\ j < k
        /\ RowStem(report[t].rows[j]) = file_stem(P_B)
        /\ RowStem(report[t].rows[k]) = file_stem(P_a)

----------------------------------------------------------------------------
(* Properties of highlight_matches *)

HighlightReturned == highlight.state \in {"returned", "panicked"}

\* the offsets of the call in ascending order
SortedPositions == sort_unstable(highlight.positions)

\* the n-th match, in ascending order, does not start and end on a
\* character boundary of the line
InvalidAt(n) ==
    \/ ~is_char_boundary(highlight.text, SortedPositions[n])
    \/ ~is_char_boundary(highlight.text, SortedPositions[n] + highlight.match_length)

\* the n-th match starts before the end of the match before it
OverlapsAt(n) ==
    n >= 2 /\ SortedPositions[n] < SortedPositions[n - 1] + highlight.match_length

\* the matches at which the loop stops
Stops == {n \in 1..Len(SortedPositions) : InvalidAt(n) \/ OverlapsAt(n)}

FirstStop == CHOOSE n \in Stops : \A k \in Stops : n <= k

\* the line with the n-th match between the two markers, for every n
Marked ==
    /\ Len(highlight.returned) =
           Len(highlight.text)
           + Len(SortedPositions) * (Len(SPAN_OPEN) + Len(SPAN_CLOSE))
    /\ \A n \in 1..Len(SortedPositions) :
           LET at == SortedPositions[n] + (n - 1) * (Len(SPAN_OPEN) + Len(SPAN_CLOSE))
               marked == SPAN_OPEN
                         \o slice(highlight.text, SortedPositions[n],
                                  SortedPositions[n] + highlight.match_length)
                         \o SPAN_CLOSE
           IN  SubSeq(highlight.returned, at + 1, at + Len(marked)) = marked

\* C24 as stated: when the start or the end of any match is not a valid
\* character boundary of the line, highlight_matches returns the line
\* exactly as it was given.
C24_AsStated ==
    (HighlightReturned /\ \E n \in 1..Len(SortedPositions) : InvalidAt(n)) =>
        /\ highlight.state = "returned"
        /\ highlight.returned = highlight.text

\* C24, as the code runs: the offsets are taken in ascending order up to
\* the first match that is invalid or overlaps the one before it; an invalid
\* one makes the call return the line as it was given, an overlapping one
\* with valid boundaries makes the slice of line 462 panic; when there is
\* neither, every match is marked.
C24_StopsAtFirstInvalidOrOverlap ==
    HighlightReturned =>
        IF Stops = {}
        THEN highlight.state = "returned" /\ Marked
        ELSE IF InvalidAt(FirstStop)
        THEN highlight.state = "returned" /\ highlight.returned = highlight.text
        ELSE highlight.state = "panicked"

\* the call panicked although a later match ends past the end of the line
C24_Witness ==
    /\ highlight.state = "panicked"
    /\ \E n \in 1..Len(SortedPositions) :
           SortedPositions[n] + highlight.match_length > Len(highlight.text)

----------------------------------------------------------------------------
(* Properties of the stored replacement and its column *)

\* every pipe of the text has one backslash before it, and only one
EscapedOnce(text) ==
    \A k \in 1..Len(text) :
        text[k] = 124 => /\ k >= 2 /\ text[k - 1] = 92
                         /\ (k >= 3 => text[k - 2] # 92)

\* the rows of the report
ReportRows == UNION {SeqToSet(report[t].rows) : t \in 1..Len(report)}

\* C25: the replacement stored in a record is the link with its separator
\* written "\|" when the record's line is a table line, and the plain link
\* otherwise; the replacement column of every row of the report shows each
\* pipe escaped exactly once, and is the link of a record of that document
\* once the escapes are taken out.
C25_SeparatorEscapedOnce ==
    /\ \A m \in AppliedRecords :
           /\ m.in_markdown_table = is_in_markdown_table(m.line_text)
           /\ m.replacement = IF m.in_markdown_table
                              THEN escape_pipe(PlainLink(m))
                              ELSE PlainLink(m)
           /\ ~m.in_markdown_table => ~HasUnescaped(m.replacement, {92})
    /\ \A row \in ReportRows :
           /\ EscapedOnce(row.replacement)
           /\ \E m \in AppliedRecords :
                  /\ to_wikilink(file_stem(m.relative_path)) = row.file
                  /\ Unescape(row.replacement) = PlainLink(m)

\* the report has rows for a record of a table line and for a record of a
\* line of text, both with an aliased link
C25_Witness ==
    /\ report # <<>>
    /\ \E m, n \in AppliedRecords :
           /\ m.in_markdown_table /\ 124 \in SeqToSet(m.replacement)
           /\ ~n.in_markdown_table /\ 124 \in SeqToSet(n.replacement)
           /\ RowsOf(m) # {} /\ RowsOf(n) # {}

----------------------------------------------------------------------------
(* Properties of the classifier: what another run returns *)

\* the lists the classifier can return for the same corpus and the same
\* records when the documents stand in the order `files`
OutputsFor(files) ==
    {identify_and_remove_ambiguous_matches(files, wikilinks_sorted, key_orders,
                                           targets_vec).ambiguous :
        key_orders \in KeyOrders(files),
        targets_vec \in TargetsVecs(DisplayTextMap(wikilinks_sorted))}

\* the same documents in every order
DocumentOrders == Perms(SeqToSet(input_files))

\* a list of groups without the order of the groups and of their targets
Unordered(groups) ==
    {[display_text |-> g.display_text, targets |-> SeqToSet(g.targets),
      matches |-> g.matches] : g \in SeqToSet(groups)}

DisplayTexts(groups) == [g \in 1..Len(groups) |-> groups[g].display_text]

Ascending(groups) ==
    \A j, k \in 1..Len(groups) :
        j < k => StrCmp(groups[j].display_text, groups[k].display_text) # "Greater"

\* C26 as stated: the returned list is in ascending order of display text
\* and, for the same corpus and the same records, it is the same list on
\* every run, whatever the order of the documents and of the hash maps.
C26_AsStated ==
    Classified =>
        /\ Ascending(ambiguous_matches)
        /\ \A files \in DocumentOrders : \A out \in OutputsFor(files) :
               out = ambiguous_matches

\* C26, as the code runs: the returned list is in ascending order of
\* display text, and every run returns the same display texts in the same
\* order and the same groups; but the targets of a group stand in the order
\* in which a HashSet was iterated, and the groups of one display text in
\* the order of the documents. The order in which matches_by_text is
\* iterated changes nothing.
C26_SameGroupsOrderOfTargetsFree ==
    Classified =>
        /\ Ascending(ambiguous_matches)
        /\ \A files \in DocumentOrders : \A out \in OutputsFor(files) :
               /\ DisplayTexts(out) = DisplayTexts(ambiguous_matches)
               /\ Unordered(out) = Unordered(ambiguous_matches)
               /\ Len(out) = Len(ambiguous_matches)
        /\ \A out \in OutputsFor(input_files) :
               (\A g \in 1..Len(out) : out[g].targets = ambiguous_matches[g].targets)
               => out = ambiguous_matches

\* two documents hold the same ambiguous text, and one of them holds a
\* second ambiguous text, which sorts before it
C26_Witness ==
    /\ Classified
    /\ \E i, j, k \in 1..Len(ambiguous_matches) :
           /\ i < j /\ j < k
           /\ ambiguous_matches[i].display_text # ambiguous_matches[j].display_text
           /\ ambiguous_matches[j].display_text = ambiguous_matches[k].display_text
           /\ ambiguous_matches[i].matches[1].relative_path
                  = ambiguous_matches[j].matches[1].relative_path
    /\ Cardinality(OutputsFor(input_files)) >= 2

----------------------------------------------------------------------------
(* Properties of the sections of the report *)

\* the section of ambiguous matches, as write_back_populate_tables writes
\* it from the list the classifier returned
AmbiguousSection == write_ambiguous_matches(ambiguous_matches)

AmbiguousRecords ==
    UNION {SeqToSet(ambiguous_matches[g].matches) : g \in 1..Len(ambiguous_matches)}

\* the headings of the ambiguous section for the text `key`
HeadingsOf(key) == {g \in 1..Len(AmbiguousSection) : AmbiguousSection[g].heading = key}

\* the unambiguous section has one table per case-folded text of the
\* applied records, and no other table
OneTablePerAppliedText ==
    pc = "done" =>
        /\ \A key \in AppliedKeys :
               Cardinality({t \in 1..Len(report) : report[t].found = key}) = 1
        /\ \A t \in 1..Len(report) : report[t].found \in AppliedKeys

\* C27 as stated: one table per distinct case-folded mention text in both
\* sections; two documents with the same ambiguous mention are listed in
\* one table under one heading.
C27_AsStated ==
    /\ OneTablePerAppliedText
    /\ Classified =>
           \A m \in AmbiguousRecords :
               /\ Cardinality(HeadingsOf(to_lowercase(m.found_text))) = 1
               /\ \A g \in HeadingsOf(to_lowercase(m.found_text)) :
                      Len(AmbiguousSection[g].tables) = 1

\* C27, as the code runs: the unambiguous section has one table per
\* distinct case-folded text; the ambiguous section has one heading and one
\* table per document and case-folded text, and the table under a heading
\* lists one document only.
C27_AmbiguousTablePerDocumentAndText ==
    /\ OneTablePerAppliedText
    /\ Classified =>
           /\ \A m \in AmbiguousRecords :
                  Cardinality({g \in HeadingsOf(to_lowercase(m.found_text)) :
                      \E row \in SeqToSet(AmbiguousSection[g].tables[1].rows) :
                          row.file = to_wikilink(file_stem(m.relative_path))}) = 1
           /\ \A g \in 1..Len(AmbiguousSection) :
                  /\ Len(AmbiguousSection[g].tables) = 1
                  /\ AmbiguousSection[g].tables[1].found = AmbiguousSection[g].heading
                  /\ \A r1, r2 \in SeqToSet(AmbiguousSection[g].tables[1].rows) :
                         r1.file = r2.file

\* two documents hold the same ambiguous text and the report has two
\* headings for it, beside a table of unambiguous matches
C27_Witness ==
    /\ pc = "done"
    /\ report # <<>>
    /\ \E m, n \in AmbiguousRecords :
           /\ m.relative_path # n.relative_path
           /\ to_lowercase(m.found_text) = to_lowercase(n.found_text)
           /\ Cardinality(HeadingsOf(to_lowercase(m.found_text))) = 2

----------------------------------------------------------------------------
(* Properties of the classifier: every record is kept, once *)

\* how many times the record stands in the list
Count(records, m) == Cardinality({k \in 1..Len(records) : records[k] = m})

\* how many times the record stands in the matches of the returned groups
CountInGroups(m) ==
    LET RECURSIVE sum(_)
        sum(g) == IF g = 0 THEN 0
                  ELSE Count(ambiguous_matches[g].matches, m) + sum(g - 1)
    IN  sum(Len(ambiguous_matches))

\* C28: after the classification every record that was in a document's
\* unambiguous list is, unchanged, either once in that document's list and
\* in no group, or in no list and once in one group; the lists and the
\* groups hold no other record, and no record is in the list of another
\* document.
C28_RecordsNeitherLostNorDuplicated ==
    Classified =>
        /\ Len(markdown_files) = Len(input_files)
        /\ \A i \in 1..Len(input_files) :
               /\ markdown_files[i].path = input_files[i].path
               /\ \A m \in InputRecords(i) :
                      /\ Count(markdown_files[i].unambiguous, m) + CountInGroups(m)
                             = Count(input_files[i].unambiguous, m)
                      /\ \A j \in 1..Len(markdown_files) :
                             j # i => Count(markdown_files[j].unambiguous, m) = 0
               /\ \A m \in SeqToSet(markdown_files[i].unambiguous) : m \in InputRecords(i)
        /\ \A m \in AmbiguousRecords :
               \E i \in 1..Len(input_files) :
                   m \in InputRecords(i) /\ m.relative_path = input_files[i].path

\* both documents had a record, one record went to a group and one stayed
C28_Witness ==
    /\ Classified
    /\ \A i \in 1..Len(input_files) : InputRecords(i) # {}
    /\ \E i, j \in 1..Len(input_files) :
           /\ i # j
           /\ \E m \in InputRecords(i) : CountInGroups(m) = 1
           /\ \E m \in InputRecords(j) : Count(markdown_files[j].unambiguous, m) = 1

----------------------------------------------------------------------------
(* Properties of the classifier called twice *)

\* C29: a second call with the same corpus returns an empty list and
\* leaves every document with the records it had after the first call, as
\* many as before.
C29_SecondCallChangesNothing ==
    pc = "again" =>
        /\ ambiguous_matches = <<>>
        /\ Len(markdown_files) = Len(first_pass.files)
        /\ \A i \in 1..Len(markdown_files) :
               /\ markdown_files[i].path = first_pass.files[i].path
               /\ SeqToSet(markdown_files[i].unambiguous)
                      = SeqToSet(first_pass.files[i].unambiguous)
               /\ Len(markdown_files[i].unambiguous)
                      = Len(first_pass.files[i].unambiguous)

\* the first call returned a group and left a record in a document, and
\* the second call has been made
C29_Witness ==
    /\ pc = "again"
    /\ first_pass.applied # <<>>
    /\ \E i \in 1..Len(markdown_files) : first_pass.files[i].unambiguous # <<>>

----------------------------------------------------------------------------
(* Properties of a run that fails *)

\* the writes of the configuration file made by reset_apply_changes in
\* the current run
ResetWrites ==
    {k \in 1..Len(writes) : /\ writes[k].what = "config"
                            /\ writes[k].during = "reset"
                            /\ writes[k].pass = pass}

\* C30: reset_apply_changes runs only after persist has written every
\* document; a step of write_reports or persist that fails ends the run
\* with the error and leaves the setting as it is, in memory and in the
\* configuration file; a run that ended in an error has not written the
\* configuration file.
C30_ResetOnlyAfterPersistSucceeded ==
    /\ [](pc = "reset" =>
             /\ config = "Some(true)"
             /\ config_file = "Some(true)"
             /\ \A i \in 1..Len(markdown_files) : disk[i] = stored(markdown_files[i]))
    /\ []((pc = "exit" /\ outcome = "Err") => ResetWrites = {})
    /\ [][(pc \in {"reports", "persist"} /\ outcome' = "Err") =>
             /\ pc' = "exit"
             /\ config' = config
             /\ config_file' = config_file]_vars
    /\ [][(pc \in {"analysis", "reports", "persist"}) => config_file' = config_file]_vars

\* persist failed after it had written a document: the run ended in an
\* error and the configuration file still says true
C30_Witness ==
    /\ pc = "exit"
    /\ outcome = "Err"
    /\ config = "Some(true)"
    /\ config_file = "Some(true)"
    /\ \E k \in 1..Len(writes) : writes[k].what = "document" /\ writes[k].pass = pass

====
